---- MODULE Spec2Model ----
(***************************************************************************)
(* The citation-reformatting pipeline of the RAFT CLI:                     *)
(*   format_documents.py       extract_documents, reformat_user_documents, *)
(*                             reformat_quotes_with_citations              *)
(*   reformat_conversation.py  reformat_ai_conversation                    *)
(*   reformat_jsonl.py         reformat_jsonl_file, reformat_jsonl_lines   *)
(* and two of its commands:                                                *)
(*   commands/run.py           run, with the commands it invokes           *)
(*   commands/finetune.py      create_finetuning_job                       *)
(*                                                                         *)
(* A Python str is a sequence of symbols.  A symbol is one character,      *)
(* except that each of the four marker literals the regular expressions    *)
(* and the `in` tests look for is one symbol of its own.                   *)
(***************************************************************************)
EXTENDS Integers, Sequences, FiniteSets, TLC

VARIABLES
    \* ---- one call of a function of format_documents.py
    fn,                 \* the function under call
    t_pc,               \* "start" | "sub" (inside re.sub) | "done"
    message,            \* its argument `message`
    documents,          \* its argument `documents`
    pos,                \* re.sub: number of symbols of message consumed so far
    quote,              \* re.sub: match.group(1) of the last match handed to replace_quote
    replacement,        \* re.sub: what replace_quote returned for it
    result,             \* the value returned (re.sub: the output built so far)
    \* ---- reformat_ai_conversation
    c_pc,               \* "idle" | "call" | "loop" | "returned" | "raised" (an exception left the function)
    call_no,            \* 1: the call on the input, 2: the call on the first call's output
    conversation,       \* the argument
    idx,                \* number of messages the for loop has consumed
    documents_list,     \* the local of the same name
    reformatted_conv,   \* the local of the same name (the return value)
    first_input,        \* the argument of call 1 (kept to compare)
    input_at_call,      \* the argument as it was when the current call began (kept to compare)
    conversation_id,    \* identity of the dict passed as the argument
    input_message_ids,  \* identities of the dicts in conversation['messages'], in order
    reformatted_id,     \* identity of the dict the function builds and returns (0: none yet)
    message_ids,        \* identities of the dicts in reformatted_conv['messages'], in order
    allocated,          \* number of dict objects created so far (their identities are 1..allocated)
    \* ---- reformat_jsonl_file / reformat_jsonl_lines
    b_pc,               \* "idle" | "start" | "loop" | "done" | "raised" (an exception left the function)
    variant,            \* "file" | "lines"
    input_lines,        \* the lines of the input file or of jsonl_content, in order
    lines,              \* the lines the for loop iterates over
    line_num,           \* number of input lines the for loop has consumed
    outfile,            \* file variant: what has been written to the output file
    reformatted_lines,  \* lines variant: the local of the same name
    reformatted_count,  \* file variant: the counter of the same name
    error_count,        \* file variant: the counter of the same name
    printed,            \* number of "Error ..." messages printed
    \* ---- the run command
    r_pc,               \* "idle" | "start" | the step the function is at | "summary" |
                        \* "returned" | "ClickException" | "SystemExit" (how the function ended)
    invoking,           \* TRUE while the command of the step r_pc is running
    options,            \* the --skip-* flags
    step_count,         \* the local of the same name
    completed_steps,    \* the local of the same name
    total_steps,        \* the local of the same name
    invoked,            \* the commands invoked so far, in order
    succeeded,          \* the commands that returned
    failed_step,        \* the command that raised ("" for none)
    infra_tests_runs,   \* number of runs of the infrastructure test suite
    summary_printed,    \* whether "RAFT Workflow Complete!" was printed
    \* ---- create_finetuning_job, called again and again on one service
    j_pc,               \* "idle" | "call" | "searched" | "returned" | "raised"
    jobs,               \* the fine-tuning jobs of the service, in the order jobs.list() yields them
    training_file_id,   \* the argument of the same name
    validation_file_id, \* the argument of the same name
    model_name,         \* the argument of the same name
    list_failed,        \* whether client.fine_tuning.jobs.list() raised in this call
    existing_job_id,    \* the local of the same name (0 stands for None)
    job_id,             \* the value returned (0: none yet)
    requests            \* one record per finished call: its arguments, the jobs it found
                        \* on the service, what it returned and whether it created a job

textVars == <<fn, t_pc, message, documents, pos, quote, replacement, result>>
convVars == <<c_pc, call_no, conversation, idx, documents_list, reformatted_conv, first_input,
              input_at_call, conversation_id, input_message_ids, reformatted_id, message_ids,
              allocated>>
batchVars == <<b_pc, variant, input_lines, lines, line_num, outfile, reformatted_lines,
               reformatted_count, error_count, printed>>
runVars == <<r_pc, invoking, options, step_count, completed_steps, total_steps, invoked,
             succeeded, failed_step, infra_tests_runs, summary_printed>>
jobVars == <<j_pc, jobs, training_file_id, validation_file_id, model_name, list_failed,
             existing_job_id, job_id, requests>>
VARIABLES
    \* ---- upload_finetuning_file, called again and again on one service
    u_pc,               \* "idle" | "call" | "searched" | "returned" | "raised"
    files,              \* the files of the service, in the order files.list() yields them
    local_path,         \* the local file the argument names: its basename, size and content
    file_type,          \* the argument of the same name
    files_list_failed,  \* whether client.files.list() raised in this call
    file_id,            \* the local of the same name (0 stands for None)
    status,             \* the local of the same name ("" stands for None)
    uploads             \* one record per finished call: its arguments, the files it found
                        \* on the service, what it returned and whether it uploaded

fileVars == <<u_pc, files, local_path, file_type, files_list_failed, file_id, status, uploads>>
VARIABLES
    \* ---- the finetune command
    ft_pc,              \* "idle" | "start" | "dry_run" | "client" | "upload" | "create" |
                        \* "update" | "returned" | "ClickException"
    ft_options,         \* --model, --dry-run, --training-file, --validation-file
    environ,            \* STUDENT_MODEL_NAME, DATASET_TRAIN_PATH, DATASET_VALID_PATH
    state,              \* the state file: the value of each key ("" for a key not set)
    state_at_call,      \* the state file when the command began (kept to compare)
    student_model_name, \* the local of the same name
    file_ids,           \* <<training_file_id, validation_file_id>> ("" for none yet)
    ft_job_id,          \* the local job_id ("" for none yet)
    upload_calls,       \* number of calls of upload_finetuning_file
    create_calls,       \* number of calls of create_finetuning_job
    displayed           \* the job id display_job_summary has shown ("" for none)

ftVars == <<ft_pc, ft_options, environ, state, state_at_call, student_model_name, file_ids,
            ft_job_id, upload_calls, create_calls, displayed>>
VARIABLES
    \* ---- monitor_finetuning_job and the job it watches
    m_pc,               \* "idle" | "poll" | "sleep" | "after" (the loop was left) |
                        \* "returned" | "ClickException"
    service_job,        \* the job on the service: its status and fine_tuned_model
    verbose,            \* the argument of the same name
    response_status,    \* the local status ("" before the first poll)
    poll_failed,        \* whether a statement of the try block raised
    polls,              \* number of calls of jobs.retrieve, counted up to MaxPolls
    printed_statuses,   \* number of "Job status" lines printed, counted up to MaxPolls
    monitor_result      \* the value returned ("" for none)

monVars == <<m_pc, service_job, verbose, response_status, poll_failed, polls,
             printed_statuses, monitor_result>>
VARIABLES
    \* ---- the configure command
    cfg_pc,             \* "idle" | "start" | "roles" (the for loop) | "region" |
                        \* "returned" | "ClickException"
    ai_config,          \* the deployments of ai.yaml, in order
    region,             \* the option --region (a set, empty when not given)
    non_interactive,    \* the option --non-interactive
    role_deployments,   \* the roles the for loop iterates over, in order
    role_idx,           \* number of roles the for loop has consumed
    current_regions,    \* the local of the same name
    selected_platforms, \* the local dict, as its items <<role, platform>> in insertion order
    selected,           \* the deployments selected so far, as <<role, name>> in order
    offers,             \* what was offered: one record per role with a non-empty list of names
    selected_region     \* the local of the same name ("" for none)

cfgVars == <<cfg_pc, ai_config, region, non_interactive, role_deployments, role_idx,
             current_regions, selected_platforms, selected, offers, selected_region>>
VARIABLES
    \* ---- CreateClientLLM
    l_pc,               \* "idle" | "ready" (the object exists)
    clients,            \* self._clients: the set of its items [key, client]
    create_client_calls,\* the calls of create_client: [prefix, client] (client 0: it raised)
    chat_calls          \* one record per finished chat call: its endpoint, the client it
                        \* used (0 for none), whether it called create_client, how it ended

llmVars == <<l_pc, clients, create_client_calls, chat_calls>>
VARIABLES
    \* ---- open_chat_tui
    tui_pc,             \* "idle" | "prompt" (at console.input) | "calling" (the model
                        \* call is under way) | "exited"
    chats_file,         \* CHATS_FILE: the persisted dict, chat id -> chat
    chat,               \* the chat dict open_chat_tui works on
    current_endpoint,   \* its local of that name
    file_before,        \* CHATS_FILE before the last step of the loop
    last_step           \* what that step was: "user", "reply", "empty", "failed",
                        \* "switch", "save" or "none"

chatVars == <<tui_pc, chats_file, chat, current_endpoint, file_before, last_step>>
vars == <<textVars, convVars, batchVars, runVars, jobVars, fileVars, ftVars, monVars, cfgVars, llmVars, chatVars>>

---------------------------------------------------------------------------
(* Symbols *)

DOC_OPEN == "<DOCUMENT>"
DOC_CLOSE == "</DOCUMENT>"
BEGIN_QUOTE == "##begin_quote##"
END_QUOTE == "##end_quote##"
\* A lone surrogate: json.loads yields it from the escape \ud800, and the utf-8
\* codec of the output file refuses to encode it.
SURROGATE == "U+D800"

\* str.strip() and str.split() without arguments work on whitespace.
Whitespace == {" ", "\n"}

\* Bounds of the checked inputs.
MaxLen == 5
MaxDocs == 2
MaxMessages == 3
MaxLines == 3
MaxCalls == 2
MaxPolls == 3

RECURSIVE SeqsUpTo(_, _)
SeqsUpTo(S, n) ==
    IF n = 0 THEN {<<>>}
    ELSE LET shorter == SeqsUpTo(S, n - 1)
         IN  shorter \cup {Append(s, x) : s \in {t \in shorter : Len(t) = n - 1}, x \in S}

---------------------------------------------------------------------------
(* Python string primitives *)

\* str(i) of a positive int, as used by the f-strings.
Digit == <<"0", "1", "2", "3", "4", "5", "6", "7", "8", "9">>
RECURSIVE str(_)
str(i) == IF i < 10 THEN <<Digit[i + 1]>> ELSE str(i \div 10) \o <<Digit[(i % 10) + 1]>>

RECURSIVE lstrip(_)
lstrip(s) == IF s # <<>> /\ Head(s) \in Whitespace THEN lstrip(Tail(s)) ELSE s

RECURSIVE rstrip(_)
rstrip(s) ==
    IF s # <<>> /\ s[Len(s)] \in Whitespace THEN rstrip(SubSeq(s, 1, Len(s) - 1)) ELSE s

\* s.strip()
strip(s) == rstrip(lstrip(s))

\* text.split(): the maximal runs of non-whitespace symbols, in order.
RECURSIVE split_whitespace(_, _)
split_whitespace(s, word) ==
    IF s = <<>> THEN (IF word = <<>> THEN <<>> ELSE <<word>>)
    ELSE IF Head(s) \in Whitespace
         THEN (IF word = <<>> THEN <<>> ELSE <<word>>) \o split_whitespace(Tail(s), <<>>)
         ELSE split_whitespace(Tail(s), Append(word, Head(s)))

\* sep.join(parts)
RECURSIVE join(_, _)
join(sep, parts) ==
    IF parts = <<>> THEN <<>>
    ELSE IF Len(parts) = 1 THEN parts[1]
    ELSE parts[1] \o sep \o join(sep, Tail(parts))

\* a in b, for two strings
contains(b, a) ==
    \E k \in 0..(Len(b) - Len(a)) : SubSeq(b, k + 1, k + Len(a)) = a

\* marker in s, for one marker symbol
has_symbol(s, marker) == \E p \in 1..Len(s) : s[p] = marker

\* The least position >= from that holds sym, or 0.
find_symbol(s, sym, from) ==
    LET hits == {p \in from..Len(s) : s[p] = sym}
    IN  IF hits = {} THEN 0 ELSE CHOOSE p \in hits : \A q \in hits : p <= q

\* The first match of  open(.*?)close  with re.DOTALL at or after position from:
\* the first open, and the first close after it (the lazy group stops there).
\* [start, stop] are the positions of the two markers; start = 0 is no match.
search(s, open, close, from) ==
    LET i == find_symbol(s, open, from)
        j == IF i = 0 THEN 0 ELSE find_symbol(s, close, i + 1)
    IN  IF i = 0 \/ j = 0 THEN [start |-> 0, stop |-> 0]
        ELSE [start |-> i, stop |-> j]

group1(s, m) == SubSeq(s, m.start + 1, m.stop - 1)

\* re.findall(pattern, s, re.DOTALL) for a pattern with one group: the groups of
\* the non-overlapping matches, left to right.
RECURSIVE findall(_, _, _, _)
findall(s, open, close, from) ==
    LET m == search(s, open, close, from)
    IN  IF m.start = 0 THEN <<>>
        ELSE <<group1(s, m)>> \o findall(s, open, close, m.stop + 1)

\* re.split(sym, s): the pieces between the occurrences of sym.
RECURSIVE re_split(_, _)
re_split(s, sym) ==
    LET p == find_symbol(s, sym, 1)
    IN  IF p = 0 THEN <<s>>
        ELSE <<SubSeq(s, 1, p - 1)>> \o re_split(SubSeq(s, p + 1, Len(s)), sym)

---------------------------------------------------------------------------
(* format_documents.py *)

\* A slip: the inner texts are returned as they stand between the tags.
extract_documents_untrimmed(message_) == findall(message_, DOC_OPEN, DOC_CLOSE, 1)

\* A slip: the documents are returned last first.
extract_documents_reversed(message_) ==
    LET found == findall(message_, DOC_OPEN, DOC_CLOSE, 1)
    IN  [k \in 1..Len(found) |-> strip(found[Len(found) + 1 - k])]

\* extract_documents(message)
extract_documents(message_) ==
    LET found == findall(message_, DOC_OPEN, DOC_CLOSE, 1)
    IN  [k \in 1..Len(found) |-> strip(found[k])]

\* The literal pieces of the f-strings and of the header line.
SOURCES_HEADER == <<"S", "o", "u", "r", "c", "e", "s", ":">>
NEWLINE == <<"\n">>
\* The grave accent (a TLA+ string cannot hold the character itself).
BACKTICK == <<"GRAVE">>

\* "[{i}]"
bracketed(i) == <<"[">> \o str(i) \o <<"]">>

\* enumerate(documents, 1) numbers the first document 1; a slip numbers it 0.
source_line_from_zero(i, doc) ==
    <<" ", " ", "-", " ">> \o bracketed(i - 1) \o <<" ">> \o strip(doc)

\* f"  - [{i}] {cleaned_doc}", i the 1-based position given by enumerate(documents, 1)
source_line(i, doc) ==
    <<" ", " ", "-", " ">> \o bracketed(i) \o <<" ">> \o strip(doc)

\* parts[0] instead of parts[-1]: the text before the first closing tag.
question_of_first_part(message_) ==
    LET parts == re_split(message_, DOC_CLOSE)
    IN  IF Len(parts) > 1 THEN strip(parts[1]) ELSE <<>>

\* parts[-1].strip() if len(parts) > 1 else ''
question_of(message_) ==
    LET parts == re_split(message_, DOC_CLOSE)
    IN  IF Len(parts) > 1 THEN strip(parts[Len(parts)]) ELSE <<>>

\* The function from the line that builds formatted_lines to the return.
sources_text(message_, docs) ==
    LET question == question_of(message_)
        formatted_lines ==
            <<SOURCES_HEADER>>
            \o [k \in 1..Len(docs) |-> source_line(k, docs[k])]
            \o (IF question # <<>> THEN <<<<>>, question>> ELSE <<>>)
    IN  join(NEWLINE, formatted_lines)

\* The function without its early return.
reformat_user_documents_always(message_) ==
    sources_text(message_, findall(message_, DOC_OPEN, DOC_CLOSE, 1))

\* reformat_user_documents(message)
reformat_user_documents(message_) ==
    LET docs == findall(message_, DOC_OPEN, DOC_CLOSE, 1)
    IN  IF docs = <<>> THEN message_ ELSE sources_text(message_, docs)

\* normalize_text(text): ' '.join(text.split())
normalize_text(text) == join(<<" ">>, split_whitespace(text, <<>>))

\* The loop without its break: the last matching document wins.
RECURSIVE citation_num_last(_, _, _)
citation_num_last(docs, normalized_quote, i) ==
    IF i > Len(docs) THEN 0
    ELSE LET later == citation_num_last(docs, normalized_quote, i + 1)
         IN  IF later # 0 THEN later
             ELSE IF contains(normalize_text(docs[i]), normalized_quote) THEN i ELSE 0

\* The for loop of replace_quote from document i on: the number of the first
\* document whose normalized text contains the normalized quote.  0 stands for
\* None: enumerate starts at 1, and the code tests `if citation_num`.
RECURSIVE citation_num_from(_, _, _)
citation_num_from(docs, normalized_quote, i) ==
    IF i > Len(docs) THEN 0
    ELSE IF contains(normalize_text(docs[i]), normalized_quote) THEN i
    ELSE citation_num_from(docs, normalized_quote, i + 1)

\* The callback returns match.group(0): the span is left as it was.
replace_quote_unchanged(group, docs) == <<BEGIN_QUOTE>> \o group \o <<END_QUOTE>>

\* A slip: a quote that no document contains is credited to the first one.
replace_quote_cites_first(group, docs) ==
    LET citation_num == citation_num_from(docs, normalize_text(strip(group)), 1)
    IN  BACKTICK \o strip(group) \o BACKTICK \o <<" ">>
        \o bracketed(IF citation_num # 0 THEN citation_num ELSE 1)

\* replace_quote(match), given match.group(1)
replace_quote(group, docs) ==
    LET quote_text == strip(group)
        normalized_quote == normalize_text(quote_text)
        citation_num == citation_num_from(docs, normalized_quote, 1)
    IN  IF citation_num # 0
        THEN BACKTICK \o quote_text \o BACKTICK \o <<" ">> \o bracketed(citation_num)
        ELSE BACKTICK \o quote_text \o BACKTICK

\* re.sub(pattern, replace_quote, message, flags=re.DOTALL), from position from on
RECURSIVE re_sub_quotes(_, _, _)
re_sub_quotes(message_, docs, from) ==
    LET m == search(message_, BEGIN_QUOTE, END_QUOTE, from)
    IN  IF m.start = 0 THEN SubSeq(message_, from, Len(message_))
        ELSE SubSeq(message_, from, m.start - 1)
             \o replace_quote(group1(message_, m), docs)
             \o re_sub_quotes(message_, docs, m.stop + 1)

\* reformat_quotes_with_citations(message, documents)
reformat_quotes_with_citations(message_, docs) == re_sub_quotes(message_, docs, 1)

---------------------------------------------------------------------------
(* One call of a function of format_documents.py on a bounded input *)

UserAlphabet == {DOC_OPEN, DOC_CLOSE, "a", " "}
QuoteAlphabet == {BEGIN_QUOTE, END_QUOTE, "a", " "}
DocumentSet == {<<"b">>, <<"a">>, <<"a", "a">>, <<"a", "\n", " ", "a">>}

TextIdle ==
    /\ fn = "none" /\ t_pc = "idle" /\ message = <<>> /\ documents = <<>>
    /\ pos = 0 /\ quote = <<>> /\ replacement = <<>> /\ result = <<>>

TextInit ==
    /\ t_pc = "start" /\ pos = 0 /\ quote = <<>> /\ replacement = <<>> /\ result = <<>>
    /\ \/ /\ fn \in {"extract_documents", "reformat_user_documents"}
          /\ message \in SeqsUpTo(UserAlphabet, MaxLen)
          /\ documents = <<>>
       \/ /\ fn = "reformat_quotes_with_citations"
          /\ message \in SeqsUpTo(QuoteAlphabet, MaxLen)
          /\ documents \in SeqsUpTo(DocumentSet, MaxDocs)

Call_extract_documents ==
    /\ t_pc = "start" /\ fn = "extract_documents"
    /\ result' = extract_documents(message)
    /\ t_pc' = "done"
    /\ UNCHANGED <<fn, message, documents, pos, quote, replacement>>
    /\ UNCHANGED <<convVars, batchVars, runVars, jobVars, fileVars, ftVars, monVars, cfgVars, llmVars, chatVars>>

Call_reformat_user_documents ==
    /\ t_pc = "start" /\ fn = "reformat_user_documents"
    /\ result' = reformat_user_documents(message)
    /\ t_pc' = "done"
    /\ UNCHANGED <<fn, message, documents, pos, quote, replacement>>
    /\ UNCHANGED <<convVars, batchVars, runVars, jobVars, fileVars, ftVars, monVars, cfgVars, llmVars, chatVars>>

\* re.sub finds the next match and calls replace_quote on it.
Sub_replace_quote ==
    /\ t_pc \in {"start", "sub"} /\ fn = "reformat_quotes_with_citations"
    /\ LET m == search(message, BEGIN_QUOTE, END_QUOTE, pos + 1)
       IN  /\ m.start # 0
           /\ quote' = group1(message, m)
           /\ replacement' = replace_quote(group1(message, m), documents)
           /\ result' = result \o SubSeq(message, pos + 1, m.start - 1) \o replacement'
           /\ pos' = m.stop
    /\ t_pc' = "sub"
    /\ UNCHANGED <<fn, message, documents>>
    /\ UNCHANGED <<convVars, batchVars, runVars, jobVars, fileVars, ftVars, monVars, cfgVars, llmVars, chatVars>>

\* re.sub finds no further match, copies the rest, and the function returns.
Sub_return ==
    /\ t_pc \in {"start", "sub"} /\ fn = "reformat_quotes_with_citations"
    /\ search(message, BEGIN_QUOTE, END_QUOTE, pos + 1).start = 0
    /\ result' = result \o SubSeq(message, pos + 1, Len(message))
    /\ pos' = Len(message)
    /\ t_pc' = "done"
    /\ UNCHANGED <<fn, message, documents, quote, replacement>>
    /\ UNCHANGED <<convVars, batchVars, runVars, jobVars, fileVars, ftVars, monVars, cfgVars, llmVars, chatVars>>

TextNext ==
    \/ Call_extract_documents
    \/ Call_reformat_user_documents
    \/ Sub_replace_quote
    \/ Sub_return

---------------------------------------------------------------------------
(* reformat_conversation.py *)

\* A parsed JSON value, as far as the code looks at it: a dict (empty, or with
\* or without the key 'messages', whose value is a list of message dicts) or a
\* non-zero number.  A message dict is a function from its keys to their values.
Conversation(messages) ==
    [type |-> "object", empty |-> FALSE, has_messages |-> TRUE, messages |-> messages]
NoMessagesObject ==
    [type |-> "object", empty |-> FALSE, has_messages |-> FALSE, messages |-> <<>>]
EmptyObject ==
    [type |-> "object", empty |-> TRUE, has_messages |-> FALSE, messages |-> <<>>]
Number ==
    [type |-> "number", empty |-> FALSE, has_messages |-> FALSE, messages |-> <<>>]

\* message.get(key, default)
get(msg, key, default) == IF key \in DOMAIN msg THEN msg[key] ELSE default

\* A slip: the new document set is appended to the running list.
next_documents_list_accumulating(content, docs) == docs \o extract_documents(content)

\* documents_list = extract_documents(content)
next_documents_list(content, docs) == extract_documents(content)

\* A slip: the new message is put in front of the list.
messages_insert_first(messages, msg) == <<msg>> \o messages

\* reformatted_conv['messages'].append(reformatted_message)
messages_append(messages, msg) == Append(messages, msg)

\* A slip: reformatted_message = message, the loop variable itself.
dict_alias(message_id, objects) == message_id

\* reformatted_message = {...}: a dict literal makes a new object, whatever dict
\* (message_id) its values were read from.  objects is the number of dict
\* objects that exist; the new one gets the next identity.
dict_literal(message_id, objects) == objects + 1

\* One iteration of the for loop: the message appended to reformatted_conv and
\* the value of documents_list after it.
process_message(msg, docs) ==
    LET role == get(msg, "role", "unknown")
        content == get(msg, "content", <<>>)
    IN  IF role = "user" /\ has_symbol(content, DOC_OPEN)
        THEN [message |-> [role |-> role, content |-> reformat_user_documents(content)],
              documents_list |-> next_documents_list(content, docs)]
        ELSE IF role = "assistant" /\ has_symbol(content, BEGIN_QUOTE)
        THEN [message |-> [role |-> role,
                           content |-> reformat_quotes_with_citations(content, docs)],
              documents_list |-> docs]
        ELSE [message |-> [role |-> role, content |-> content],
              documents_list |-> docs]

\* 'messages' not in conversation raises TypeError on a number.
reformat_raises(conv) == conv.type = "number"

\* Only the first test of the guard.
returns_empty_if_falsy(conv) == conv.type = "object" /\ conv.empty

\* if not conversation or 'messages' not in conversation
returns_empty(conv) == conv.type = "object" /\ (conv.empty \/ ~conv.has_messages)

\* conversation['messages'] raises KeyError on a dict without the key.
subscript_raises(conv) == ~conv.has_messages

RECURSIVE reformat_loop(_, _, _, _)
reformat_loop(messages, k, docs, out) ==
    IF k > Len(messages) THEN out
    ELSE LET step == process_message(messages[k], docs)
         IN  reformat_loop(messages, k + 1, step.documents_list,
                           messages_append(out, step.message))

\* reformat_ai_conversation(conversation), for a conversation it does not raise on
reformat_ai_conversation(conv) ==
    IF returns_empty(conv) THEN Conversation(<<>>)
    ELSE Conversation(reformat_loop(conv.messages, 1, <<>>, <<>>))

---------------------------------------------------------------------------
(* reformat_ai_conversation, one loop iteration at a time, called on an input *)
(* and then on its own output                                                *)

DOC_A_QUESTION == <<DOC_OPEN, "a", DOC_CLOSE, "q">>
DOC_B == <<DOC_OPEN, "b", DOC_CLOSE>>
QUOTE_A == <<BEGIN_QUOTE, "a", END_QUOTE>>
NESTED_QUOTE == <<BEGIN_QUOTE, BEGIN_QUOTE, "a", END_QUOTE, END_QUOTE>>
UNCLOSED_DOC == <<DOC_OPEN, "a">>
DOCS_B_A == <<DOC_OPEN, "b", DOC_CLOSE, DOC_OPEN, " ", "a", DOC_CLOSE>>
ContentSet == {DOC_A_QUESTION, DOC_B, QUOTE_A, NESTED_QUOTE, UNCLOSED_DOC, DOCS_B_A}

MessageSet ==
    {[role |-> r, content |-> c] : r \in {"user", "assistant", "system"}, c \in ContentSet}
    \cup {[content |-> QUOTE_A],
          [role |-> "user", content |-> DOC_A_QUESTION, name |-> "n"]}

ConvIdle ==
    /\ c_pc = "idle" /\ call_no = 0 /\ conversation = NoMessagesObject /\ idx = 0
    /\ documents_list = <<>> /\ reformatted_conv = NoMessagesObject
    /\ first_input = NoMessagesObject /\ input_at_call = NoMessagesObject
    /\ conversation_id = 0 /\ input_message_ids = <<>>
    /\ reformatted_id = 0 /\ message_ids = <<>> /\ allocated = 0

\* The caller's objects: the argument is dict 1, its messages are dicts 2, 3, ...
ConvInit ==
    /\ c_pc = "call" /\ call_no = 1 /\ idx = 0
    /\ conversation \in {Conversation(m) : m \in SeqsUpTo(MessageSet, MaxMessages)}
                        \cup {NoMessagesObject, EmptyObject, Number}
    /\ documents_list = <<>> /\ reformatted_conv = NoMessagesObject
    /\ first_input = conversation /\ input_at_call = conversation
    /\ conversation_id = 1
    /\ input_message_ids = [k \in 1..Len(conversation.messages) |-> k + 1]
    /\ reformatted_id = 0 /\ message_ids = <<>>
    /\ allocated = Len(conversation.messages) + 1

\* The guard, then the initialisation of the two locals.  Both return
\* {"messages": []} and reformatted_conv = {"messages": []} make a new dict.
Conv_enter ==
    /\ c_pc = "call"
    /\ idx' = 0
    /\ documents_list' = <<>>
    /\ IF reformat_raises(conversation)
       THEN /\ c_pc' = "raised"
            /\ UNCHANGED <<reformatted_conv, reformatted_id, message_ids, allocated>>
       ELSE /\ reformatted_conv' = Conversation(<<>>)
            /\ reformatted_id' = dict_literal(conversation_id, allocated)
            /\ message_ids' = <<>>
            /\ allocated' = allocated + 1
            /\ c_pc' = IF returns_empty(conversation) THEN "returned"
                       ELSE IF subscript_raises(conversation) THEN "raised"
                       ELSE "loop"
    /\ UNCHANGED <<call_no, conversation, first_input, input_at_call, conversation_id,
                   input_message_ids>>
    /\ UNCHANGED <<textVars, batchVars, runVars, jobVars, fileVars, ftVars, monVars, cfgVars, llmVars, chatVars>>

\* One iteration of `for message in conversation['messages']`.  The role and
\* the content are stored in the dict reformatted_message; if that dict were
\* one of the argument's dicts, the argument would show the new values.
Conv_loop ==
    /\ c_pc = "loop" /\ idx < Len(conversation.messages)
    /\ LET step == process_message(conversation.messages[idx + 1], documents_list)
           reformatted_message == dict_literal(input_message_ids[idx + 1], allocated)
       IN  /\ documents_list' = step.documents_list
           /\ reformatted_conv' =
                  Conversation(messages_append(reformatted_conv.messages, step.message))
           /\ message_ids' = messages_append(message_ids, reformatted_message)
           /\ allocated' = IF reformatted_message > allocated THEN reformatted_message
                           ELSE allocated
           /\ conversation' =
                  [conversation EXCEPT !.messages =
                      [k \in 1..Len(conversation.messages) |->
                          IF input_message_ids[k] = reformatted_message THEN step.message
                          ELSE conversation.messages[k]]]
    /\ idx' = idx + 1
    /\ UNCHANGED <<c_pc, call_no, first_input, input_at_call, conversation_id,
                   input_message_ids, reformatted_id>>
    /\ UNCHANGED <<textVars, batchVars, runVars, jobVars, fileVars, ftVars, monVars, cfgVars, llmVars, chatVars>>

\* return reformatted_conv
Conv_return ==
    /\ c_pc = "loop" /\ idx = Len(conversation.messages)
    /\ c_pc' = "returned"
    /\ UNCHANGED <<call_no, conversation, idx, documents_list, reformatted_conv, first_input,
                   input_at_call, conversation_id, input_message_ids, reformatted_id,
                   message_ids, allocated>>
    /\ UNCHANGED <<textVars, batchVars, runVars, jobVars, fileVars, ftVars, monVars, cfgVars, llmVars, chatVars>>

\* The caller passes the returned conversation to the function again.
Conv_reapply ==
    /\ c_pc = "returned" /\ call_no = 1
    /\ conversation' = reformatted_conv
    /\ input_at_call' = reformatted_conv
    /\ conversation_id' = reformatted_id
    /\ input_message_ids' = message_ids
    /\ call_no' = 2
    /\ c_pc' = "call"
    /\ UNCHANGED <<idx, documents_list, reformatted_conv, first_input, reformatted_id,
                   message_ids, allocated>>
    /\ UNCHANGED <<textVars, batchVars, runVars, jobVars, fileVars, ftVars, monVars, cfgVars, llmVars, chatVars>>

ConvNext == Conv_enter \/ Conv_loop \/ Conv_return \/ Conv_reapply

---------------------------------------------------------------------------
(* reformat_jsonl.py *)

\* The text of a line without its surrounding whitespace: nothing, text that is
\* not JSON, or the JSON text of a value.  compact tells the separators of the
\* JSON text: "," and ":" (TRUE) or ", " and ": " as json.dumps writes them (FALSE).
EmptyText == [kind |-> "empty", value |-> NoMessagesObject, compact |-> FALSE]
Garbage == [kind |-> "garbage", value |-> NoMessagesObject, compact |-> FALSE]
JsonText(value, compact) == [kind |-> "json", value |-> value, compact |-> compact]

\* A line: its text, and whether whitespace precedes and follows it.
Line(lead, text, trail) == [lead |-> lead, text |-> text, trail |-> trail]

\* line.strip()
strip_line(line) == Line(FALSE, line.text, FALSE)

\* `if not line`, for a stripped line
is_empty(line) == line.text.kind = "empty" /\ ~line.lead /\ ~line.trail

\* json.loads(line) raises JSONDecodeError on text that is not JSON.
loads_raises(line) == line.text.kind # "json"
json_loads(line) == line.text.value

\* json.dumps(obj, ensure_ascii=False): one line of JSON text
json_dumps(value) == Line(FALSE, JsonText(value, FALSE), FALSE)

\* The utf-8 encoder of the output file raises UnicodeEncodeError on a lone
\* surrogate, which ensure_ascii=False leaves in the text.
encodable(value) ==
    \A k \in 1..Len(value.messages) :
        ~has_symbol(value.messages[k].content, SURROGATE)

\* What is in the output file: whole lines of JSON text, line ends, and what
\* json.dump had written of a text when the encoder raised.
Written(line) == [item |-> "text", line |-> line]
LineEnd == [item |-> "newline", line |-> Line(FALSE, EmptyText, FALSE)]
Partial(line) == [item |-> "partial", line |-> line]

\* The body of the try block of reformat_jsonl_file on a stripped non-empty line:
\* the exception it ends with ("" for none) and what it wrote to outfile.
try_file(line) ==
    IF loads_raises(line) THEN [exc |-> "JSONDecodeError", wrote |-> <<>>]
    ELSE IF reformat_raises(json_loads(line)) THEN [exc |-> "TypeError", wrote |-> <<>>]
    ELSE LET reformatted == reformat_ai_conversation(json_loads(line))
         IN  IF encodable(reformatted)
             THEN [exc |-> "", wrote |-> <<Written(json_dumps(reformatted)), LineEnd>>]
             ELSE [exc |-> "UnicodeEncodeError",
                   wrote |-> <<Partial(json_dumps(reformatted))>>]

\* The body of the try block of reformat_jsonl_lines: the exception it ends with
\* and what it appended to reformatted_lines.
try_lines(line) ==
    IF loads_raises(line) THEN [exc |-> "JSONDecodeError", appended |-> <<>>]
    ELSE IF reformat_raises(json_loads(line)) THEN [exc |-> "TypeError", appended |-> <<>>]
    ELSE [exc |-> "",
          appended |-> <<json_dumps(reformat_ai_conversation(json_loads(line)))>>]

\* The classes the try blocks raise; all derive from Exception.
ExceptionSubclasses == {"JSONDecodeError", "TypeError", "UnicodeEncodeError"}

\* Only the first except clause.
file_catches_decode_errors_only(exc) == exc = "JSONDecodeError"

\* except json.JSONDecodeError ... except Exception
file_catches(exc) == exc = "JSONDecodeError" \/ exc \in ExceptionSubclasses

\* except Exception
lines_catches(exc) == exc \in ExceptionSubclasses

\* The except clause drops the failed line, as the file variant does.
lines_on_error_skip(line) == <<>>

\* reformatted_lines.append(line) in the except clause: line is the stripped line
lines_on_error(line) == <<line>>

\* jsonl_content.strip().split('\n'), on the lines of jsonl_content
RECURSIVE drop_leading_blank(_)
drop_leading_blank(content_lines) ==
    IF content_lines # <<>> /\ is_empty(strip_line(Head(content_lines)))
    THEN drop_leading_blank(Tail(content_lines)) ELSE content_lines

RECURSIVE drop_trailing_blank(_)
drop_trailing_blank(content_lines) ==
    IF content_lines # <<>> /\ is_empty(strip_line(content_lines[Len(content_lines)]))
    THEN drop_trailing_blank(SubSeq(content_lines, 1, Len(content_lines) - 1)) ELSE content_lines

strip_split(content_lines) ==
    LET kept == drop_trailing_blank(drop_leading_blank(content_lines))
    IN  IF kept = <<>> THEN <<Line(FALSE, EmptyText, FALSE)>>
        ELSE [k \in 1..Len(kept) |->
                 Line(kept[k].lead /\ k # 1, kept[k].text, kept[k].trail /\ k # Len(kept))]

---------------------------------------------------------------------------
(* reformat_jsonl_file and reformat_jsonl_lines, one input line at a time *)

\* The first record of example_jsonl.
YOU_ARE_HELPFUL ==
    <<"Y", "o", "u", " ", "a", "r", "e", " ", "h", "e", "l", "p", "f", "u", "l", ".">>
EXAMPLE_USER ==
    <<DOC_OPEN, "D", "o", "c", " ", "1", DOC_CLOSE,
      DOC_OPEN, "D", "o", "c", " ", "2", DOC_CLOSE,
      "Q", "u", "e", "s", "t", "i", "o", "n", "?">>
EXAMPLE_ASSISTANT ==
    <<"A", "n", "s", "w", "e", "r", " ", "w", "i", "t", "h", " ",
      BEGIN_QUOTE, "D", "o", "c", " ", "1", END_QUOTE, ".">>
ExampleConversation ==
    Conversation(<<[role |-> "system", content |-> YOU_ARE_HELPFUL],
                   [role |-> "user", content |-> EXAMPLE_USER],
                   [role |-> "assistant", content |-> EXAMPLE_ASSISTANT]>>)
ExampleLine == Line(FALSE, JsonText(ExampleConversation, TRUE), FALSE)

\* {"messages":[{"role":"user","content":"\ud800"}]}
SurrogateLine ==
    Line(FALSE,
         JsonText(Conversation(<<[role |-> "user", content |-> <<SURROGATE>>]>>), TRUE),
         FALSE)

LineSet ==
    {Line(FALSE, EmptyText, FALSE), Line(TRUE, EmptyText, FALSE),
     Line(FALSE, Garbage, FALSE), Line(TRUE, Garbage, TRUE),
     Line(FALSE, JsonText(Number, TRUE), FALSE),
     Line(FALSE, JsonText(NoMessagesObject, TRUE), FALSE),
     Line(FALSE, JsonText(Conversation(<<>>), FALSE), TRUE),
     ExampleLine, SurrogateLine}

BatchIdle ==
    /\ b_pc = "idle" /\ variant = "none" /\ input_lines = <<>> /\ lines = <<>>
    /\ line_num = 0 /\ outfile = <<>> /\ reformatted_lines = <<>>
    /\ reformatted_count = 0 /\ error_count = 0 /\ printed = 0

BatchInit ==
    /\ b_pc = "start" /\ variant \in {"file", "lines"}
    /\ input_lines \in SeqsUpTo(LineSet, MaxLines)
    /\ lines = <<>> /\ line_num = 0 /\ outfile = <<>> /\ reformatted_lines = <<>>
    /\ reformatted_count = 0 /\ error_count = 0 /\ printed = 0

\* The two counters are set and the two files opened: infile yields its lines.
File_open ==
    /\ b_pc = "start" /\ variant = "file"
    /\ lines' = input_lines
    /\ outfile' = <<>>
    /\ reformatted_count' = 0 /\ error_count' = 0
    /\ b_pc' = "loop"
    /\ UNCHANGED <<variant, input_lines, line_num, reformatted_lines, printed>>
    /\ UNCHANGED <<textVars, convVars, runVars, jobVars, fileVars, ftVars, monVars, cfgVars, llmVars, chatVars>>

\* line = line.strip(); if not line: continue
File_skip_blank ==
    /\ b_pc = "loop" /\ variant = "file" /\ line_num < Len(lines)
    /\ is_empty(strip_line(lines[line_num + 1]))
    /\ line_num' = line_num + 1
    /\ UNCHANGED <<b_pc, variant, input_lines, lines, outfile, reformatted_lines,
                   reformatted_count, error_count, printed>>
    /\ UNCHANGED <<textVars, convVars, runVars, jobVars, fileVars, ftVars, monVars, cfgVars, llmVars, chatVars>>

\* The try statement on a non-empty line.
File_try ==
    /\ b_pc = "loop" /\ variant = "file" /\ line_num < Len(lines)
    /\ ~is_empty(strip_line(lines[line_num + 1]))
    /\ LET t == try_file(strip_line(lines[line_num + 1]))
       IN  /\ outfile' = outfile \o t.wrote
           /\ reformatted_count' = IF t.exc = "" THEN reformatted_count + 1
                                   ELSE reformatted_count
           /\ error_count' = IF t.exc # "" /\ file_catches(t.exc) THEN error_count + 1
                             ELSE error_count
           /\ printed' = IF t.exc # "" /\ file_catches(t.exc) THEN printed + 1 ELSE printed
           /\ b_pc' = IF t.exc # "" /\ ~file_catches(t.exc) THEN "raised" ELSE "loop"
    /\ line_num' = line_num + 1
    /\ UNCHANGED <<variant, input_lines, lines, reformatted_lines>>
    /\ UNCHANGED <<textVars, convVars, runVars, jobVars, fileVars, ftVars, monVars, cfgVars, llmVars, chatVars>>

\* The loop ends, the files are closed and the counts printed.
File_complete ==
    /\ b_pc = "loop" /\ variant = "file" /\ line_num = Len(lines)
    /\ b_pc' = "done"
    /\ UNCHANGED <<variant, input_lines, lines, line_num, outfile, reformatted_lines,
                   reformatted_count, error_count, printed>>
    /\ UNCHANGED <<textVars, convVars, runVars, jobVars, fileVars, ftVars, monVars, cfgVars, llmVars, chatVars>>

\* lines = jsonl_content.strip().split('\n'); reformatted_lines = []
Lines_enter ==
    /\ b_pc = "start" /\ variant = "lines"
    /\ lines' = strip_split(input_lines)
    /\ reformatted_lines' = <<>>
    /\ b_pc' = "loop"
    /\ UNCHANGED <<variant, input_lines, line_num, outfile, reformatted_count,
                   error_count, printed>>
    /\ UNCHANGED <<textVars, convVars, runVars, jobVars, fileVars, ftVars, monVars, cfgVars, llmVars, chatVars>>

\* line = line.strip(); if not line: continue
Lines_skip_blank ==
    /\ b_pc = "loop" /\ variant = "lines" /\ line_num < Len(lines)
    /\ is_empty(strip_line(lines[line_num + 1]))
    /\ line_num' = line_num + 1
    /\ UNCHANGED <<b_pc, variant, input_lines, lines, outfile, reformatted_lines,
                   reformatted_count, error_count, printed>>
    /\ UNCHANGED <<textVars, convVars, runVars, jobVars, fileVars, ftVars, monVars, cfgVars, llmVars, chatVars>>

\* The try statement on a non-empty line.
Lines_try ==
    /\ b_pc = "loop" /\ variant = "lines" /\ line_num < Len(lines)
    /\ ~is_empty(strip_line(lines[line_num + 1]))
    /\ LET line == strip_line(lines[line_num + 1])
           t == try_lines(line)
       IN  /\ reformatted_lines' =
                  IF t.exc = "" THEN reformatted_lines \o t.appended
                  ELSE IF lines_catches(t.exc) THEN reformatted_lines \o lines_on_error(line)
                  ELSE reformatted_lines
           /\ printed' = IF t.exc # "" /\ lines_catches(t.exc) THEN printed + 1 ELSE printed
           /\ b_pc' = IF t.exc # "" /\ ~lines_catches(t.exc) THEN "raised" ELSE "loop"
    /\ line_num' = line_num + 1
    /\ UNCHANGED <<variant, input_lines, lines, outfile, reformatted_count, error_count>>
    /\ UNCHANGED <<textVars, convVars, runVars, jobVars, fileVars, ftVars, monVars, cfgVars, llmVars, chatVars>>

\* return '\n'.join(reformatted_lines)
Lines_return ==
    /\ b_pc = "loop" /\ variant = "lines" /\ line_num = Len(lines)
    /\ b_pc' = "done"
    /\ UNCHANGED <<variant, input_lines, lines, line_num, outfile, reformatted_lines,
                   reformatted_count, error_count, printed>>
    /\ UNCHANGED <<textVars, convVars, runVars, jobVars, fileVars, ftVars, monVars, cfgVars, llmVars, chatVars>>

BatchNext ==
    \/ File_open \/ File_skip_blank \/ File_try \/ File_complete
    \/ Lines_enter \/ Lines_skip_blank \/ Lines_try \/ Lines_return

---------------------------------------------------------------------------
(* commands/run.py, and what the commands it invokes can end with *)

\* The five steps, in the order of the workflow table.
Steps == <<"check", "gen", "finetune", "deploy", "eval">>
StepSet == {Steps[i] : i \in 1..Len(Steps)}

Options ==
    [skip_setup : BOOLEAN, skip_check : BOOLEAN, skip_gen : BOOLEAN,
     skip_finetune : BOOLEAN, skip_deploy : BOOLEAN, skip_eval : BOOLEAN]

\* The flag that the `if not skip_...` in front of a step tests.
skipped(opts, step) ==
    CASE step = "check" -> opts.skip_check
      [] step = "gen" -> opts.skip_gen
      [] step = "finetune" -> opts.skip_finetune
      [] step = "deploy" -> opts.skip_deploy
      [] step = "eval" -> opts.skip_eval

\* sum(1 for skip in [skip_check, ..., skip_eval] if not skip)
count_not_skipped(opts) == Cardinality({step \in StepSet : ~skipped(opts, step)})

\* A slip in the order of the blocks: deploy before finetune.
next_step_deploy_first(step) ==
    CASE step = "check" -> "gen"
      [] step = "gen" -> "deploy"
      [] step = "deploy" -> "finetune"
      [] step = "finetune" -> "eval"
      [] step = "eval" -> "summary"

\* What follows the block of a step in the function body.
next_step(step) ==
    CASE step = "check" -> "gen"
      [] step = "gen" -> "finetune"
      [] step = "finetune" -> "deploy"
      [] step = "deploy" -> "eval"
      [] step = "eval" -> "summary"

\* What setup_check_environment / setup_gen_environment meet: the deployment
\* names are set, one is missing (ClickException), or loading the environment
\* raises something else.
EnvStates == {"ready", "missing", "error"}
\* The return code of the pytest run.
ReturnCodes == {0, 1}
\* How the rest of a command's try block ends.
Bodies == {"ok", "ClickException", "Exception"}

\* check(verbose): the exception it ends with ("" when it returns) and the
\* number of runs of the infrastructure tests it made.
check_command(env, tests_rc) ==
    IF env = "missing" THEN [exc |-> "ClickException", tests |-> 0]
    ELSE IF env = "error" THEN [exc |-> "SystemExit", tests |-> 0]
    ELSE IF tests_rc # 0 THEN [exc |-> "ClickException", tests |-> 1]
    ELSE [exc |-> "", tests |-> 1]

\* The keyword arguments gen is invoked with: run passes skip_setup and no
\* skip_tests, and click fills a parameter that is not passed with its
\* default, which is False for the flag --skip-tests.
gen_kwargs(opts) == [skip_setup |-> opts.skip_setup, skip_tests |-> FALSE]

\* gen(..., skip_setup, skip_tests, verbose)
gen_command(kwargs, env, tests_rc, body) ==
    IF env = "missing" THEN [exc |-> "ClickException", tests |-> 0]
    ELSE IF env = "error" THEN [exc |-> "SystemExit", tests |-> 0]
    ELSE LET tests == IF kwargs.skip_tests THEN 0 ELSE 1
         IN  IF tests = 1 /\ tests_rc # 0 THEN [exc |-> "ClickException", tests |-> tests]
             ELSE IF body = "ClickException" THEN [exc |-> "ClickException", tests |-> tests]
             ELSE IF body = "Exception" THEN [exc |-> "SystemExit", tests |-> tests]
             ELSE [exc |-> "", tests |-> tests]

\* finetune(verbose): except click.ClickException: raise; except Exception:
\* raise click.ClickException
finetune_command(body) ==
    [exc |-> IF body = "ok" THEN "" ELSE "ClickException", tests |-> 0]

\* deploy(verbose), with the same two except clauses
deploy_command(body) ==
    [exc |-> IF body = "ok" THEN "" ELSE "ClickException", tests |-> 0]

\* eval(verbose), with the same two except clauses
eval_command(body) ==
    [exc |-> IF body = "ok" THEN "" ELSE "ClickException", tests |-> 0]

\* A slip: the failure is logged and the workflow goes on.
after_step_goes_on(exc, following) == following

\* Where run is after the command of a step ended with exc.  `except Exception`
\* around the invocation turns every Exception into a ClickException, which the
\* outer `except click.ClickException: raise` lets out of run; SystemExit is no
\* Exception and passes every except clause.
after_step(exc, following) ==
    IF exc = "" THEN following
    ELSE IF exc \in {"ClickException", "Exception"} THEN "ClickException"
    ELSE "SystemExit"

RunIdle ==
    /\ r_pc = "idle" /\ invoking = FALSE
    /\ options = [skip_setup |-> FALSE, skip_check |-> FALSE, skip_gen |-> FALSE,
                  skip_finetune |-> FALSE, skip_deploy |-> FALSE, skip_eval |-> FALSE]
    /\ step_count = 0 /\ completed_steps = 0 /\ total_steps = 0
    /\ invoked = <<>> /\ succeeded = {} /\ failed_step = ""
    /\ infra_tests_runs = 0 /\ summary_printed = FALSE

RunInit ==
    /\ r_pc = "start" /\ invoking = FALSE
    /\ options \in Options
    /\ step_count = 0 /\ completed_steps = 0 /\ total_steps = 0
    /\ invoked = <<>> /\ succeeded = {} /\ failed_step = ""
    /\ infra_tests_runs = 0 /\ summary_printed = FALSE

\* The workflow table is printed and the three counters are set.
Run_enter ==
    /\ r_pc = "start"
    /\ step_count' = 0
    /\ completed_steps' = 0
    /\ total_steps' = count_not_skipped(options)
    /\ r_pc' = Steps[1]
    /\ UNCHANGED <<invoking, options, invoked, succeeded, failed_step, infra_tests_runs,
                   summary_printed>>
    /\ UNCHANGED <<textVars, convVars, batchVars, jobVars, fileVars, ftVars, monVars, cfgVars, llmVars, chatVars>>

\* `if not skip_...:` step_count += 1, and ctx.invoke calls the command.
Run_step(step) ==
    /\ r_pc = step /\ ~invoking
    /\ IF skipped(options, step)
       THEN /\ r_pc' = next_step(step)
            /\ UNCHANGED <<invoking, step_count, invoked>>
       ELSE /\ step_count' = step_count + 1
            /\ invoked' = Append(invoked, step)
            /\ invoking' = TRUE
            /\ UNCHANGED r_pc
    /\ UNCHANGED <<options, completed_steps, total_steps, succeeded, failed_step,
                   infra_tests_runs, summary_printed>>
    /\ UNCHANGED <<textVars, convVars, batchVars, jobVars, fileVars, ftVars, monVars, cfgVars, llmVars, chatVars>>

\* What run does when the command of a step has ended with outcome:
\* completed_steps += 1 if it returned, the except clauses if it raised.
step_end(step, outcome, completed, returned, failed, tests) ==
    [completed_steps |-> IF outcome.exc = "" THEN completed + 1 ELSE completed,
     succeeded |-> IF outcome.exc = "" THEN returned \cup {step} ELSE returned,
     failed_step |-> IF outcome.exc = "" THEN failed ELSE step,
     infra_tests_runs |-> tests + outcome.tests,
     r_pc |-> after_step(outcome.exc, next_step(step))]

\* ctx.invoke(check, verbose=verbose) ends.
Invoke_check ==
    /\ r_pc = "check" /\ invoking
    /\ \E env \in EnvStates, tests_rc \in ReturnCodes :
           LET end == step_end("check", check_command(env, tests_rc),
                               completed_steps, succeeded, failed_step, infra_tests_runs)
           IN  /\ completed_steps' = end.completed_steps
               /\ succeeded' = end.succeeded
               /\ failed_step' = end.failed_step
               /\ infra_tests_runs' = end.infra_tests_runs
               /\ r_pc' = end.r_pc
    /\ invoking' = FALSE
    /\ UNCHANGED <<options, step_count, total_steps, invoked, summary_printed>>
    /\ UNCHANGED <<textVars, convVars, batchVars, jobVars, fileVars, ftVars, monVars, cfgVars, llmVars, chatVars>>

\* ctx.invoke(gen, ds_name=..., skip_setup=skip_setup, verbose=verbose) ends.
Invoke_gen ==
    /\ r_pc = "gen" /\ invoking
    /\ \E env \in EnvStates, tests_rc \in ReturnCodes, body \in Bodies :
           LET end == step_end("gen", gen_command(gen_kwargs(options), env, tests_rc, body),
                               completed_steps, succeeded, failed_step, infra_tests_runs)
           IN  /\ completed_steps' = end.completed_steps
               /\ succeeded' = end.succeeded
               /\ failed_step' = end.failed_step
               /\ infra_tests_runs' = end.infra_tests_runs
               /\ r_pc' = end.r_pc
    /\ invoking' = FALSE
    /\ UNCHANGED <<options, step_count, total_steps, invoked, summary_printed>>
    /\ UNCHANGED <<textVars, convVars, batchVars, jobVars, fileVars, ftVars, monVars, cfgVars, llmVars, chatVars>>

\* ctx.invoke(finetune, verbose=verbose) ends.
Invoke_finetune ==
    /\ r_pc = "finetune" /\ invoking
    /\ \E body \in Bodies :
           LET end == step_end("finetune", finetune_command(body),
                               completed_steps, succeeded, failed_step, infra_tests_runs)
           IN  /\ completed_steps' = end.completed_steps
               /\ succeeded' = end.succeeded
               /\ failed_step' = end.failed_step
               /\ infra_tests_runs' = end.infra_tests_runs
               /\ r_pc' = end.r_pc
    /\ invoking' = FALSE
    /\ UNCHANGED <<options, step_count, total_steps, invoked, summary_printed>>
    /\ UNCHANGED <<textVars, convVars, batchVars, jobVars, fileVars, ftVars, monVars, cfgVars, llmVars, chatVars>>

\* ctx.invoke(deploy, verbose=verbose) ends.
Invoke_deploy ==
    /\ r_pc = "deploy" /\ invoking
    /\ \E body \in Bodies :
           LET end == step_end("deploy", deploy_command(body),
                               completed_steps, succeeded, failed_step, infra_tests_runs)
           IN  /\ completed_steps' = end.completed_steps
               /\ succeeded' = end.succeeded
               /\ failed_step' = end.failed_step
               /\ infra_tests_runs' = end.infra_tests_runs
               /\ r_pc' = end.r_pc
    /\ invoking' = FALSE
    /\ UNCHANGED <<options, step_count, total_steps, invoked, summary_printed>>
    /\ UNCHANGED <<textVars, convVars, batchVars, jobVars, fileVars, ftVars, monVars, cfgVars, llmVars, chatVars>>

\* ctx.invoke(eval_cmd, verbose=verbose) ends.
Invoke_eval ==
    /\ r_pc = "eval" /\ invoking
    /\ \E body \in Bodies :
           LET end == step_end("eval", eval_command(body),
                               completed_steps, succeeded, failed_step, infra_tests_runs)
           IN  /\ completed_steps' = end.completed_steps
               /\ succeeded' = end.succeeded
               /\ failed_step' = end.failed_step
               /\ infra_tests_runs' = end.infra_tests_runs
               /\ r_pc' = end.r_pc
    /\ invoking' = FALSE
    /\ UNCHANGED <<options, step_count, total_steps, invoked, summary_printed>>
    /\ UNCHANGED <<textVars, convVars, batchVars, jobVars, fileVars, ftVars, monVars, cfgVars, llmVars, chatVars>>

\* The success summary, and the function returns.
Run_summary ==
    /\ r_pc = "summary"
    /\ summary_printed' = TRUE
    /\ r_pc' = "returned"
    /\ UNCHANGED <<invoking, options, step_count, completed_steps, total_steps, invoked,
                   succeeded, failed_step, infra_tests_runs>>
    /\ UNCHANGED <<textVars, convVars, batchVars, jobVars, fileVars, ftVars, monVars, cfgVars, llmVars, chatVars>>

RunNext ==
    \/ Run_enter
    \/ \E step \in StepSet : Run_step(step)
    \/ Invoke_check \/ Invoke_gen \/ Invoke_finetune \/ Invoke_deploy \/ Invoke_eval
    \/ Run_summary

---------------------------------------------------------------------------
(* commands/finetune.py: create_finetuning_job on the jobs of one service *)

\* File ids and model names the command is called with.  A name is a sequence
\* of pieces, so that one name can be the beginning of another.
TrainingFiles == {"file-t1", "file-t2"}
ValidationFiles == {"file-v1", "file-v2"}
ModelNames == {<<"gpt-4o">>, <<"gpt-4o", "-mini">>}
\* The service reports the model of a job as the name it was given, with or
\* without a version behind it.
Versions == {<<>>, <<"-2024-07-18">>}

\* m.startswith(model_name)
startswith(m, prefix) ==
    Len(prefix) <= Len(m) /\ SubSeq(m, 1, Len(prefix)) = prefix

Job(jid, t, v, m) == [id |-> jid, training_file |-> t, validation_file |-> v, model |-> m]

\* The for loop of find_existing_finetune_job from the k-th listed job on: the
\* id of the first job with these two files and a model that starts with
\* model_name; 0 stands for None.
RECURSIVE first_matching_job(_, _, _, _, _)
first_matching_job(listed, k, t, v, name) ==
    IF k > Len(listed) THEN 0
    ELSE IF /\ listed[k].training_file = t
            /\ listed[k].validation_file = v
            /\ startswith(listed[k].model, name)
         THEN listed[k].id
         ELSE first_matching_job(listed, k + 1, t, v, name)

\* find_existing_finetune_job(client, training_file_id, validation_file_id,
\* model_name): (None, None) when client.fine_tuning.jobs.list() raises.
find_existing_finetune_job(listed, list_raises, t, v, name) ==
    IF list_raises THEN 0 ELSE first_matching_job(listed, 1, t, v, name)

\* What a finished call leaves in requests.
Request(t, v, name, before, failed, returned, created) ==
    [training_file |-> t, validation_file |-> v, model |-> name, jobs_before |-> before,
     list_failed |-> failed, job_id |-> returned, created |-> created]

JobIdle ==
    /\ j_pc = "idle" /\ jobs = <<>> /\ training_file_id = "" /\ validation_file_id = ""
    /\ model_name = <<>> /\ list_failed = FALSE
    /\ existing_job_id = 0 /\ job_id = 0 /\ requests = <<>>

\* A service without jobs, and the first call.
JobInit ==
    /\ j_pc = "call" /\ jobs = <<>>
    /\ training_file_id \in TrainingFiles
    /\ validation_file_id \in ValidationFiles
    /\ model_name \in ModelNames
    /\ list_failed = FALSE /\ existing_job_id = 0 /\ job_id = 0 /\ requests = <<>>

\* existing_job_id, existing_status = find_existing_finetune_job(...)
Find_existing ==
    /\ j_pc = "call"
    /\ \E list_raises \in BOOLEAN :
           /\ list_failed' = list_raises
           /\ existing_job_id' =
                  find_existing_finetune_job(jobs, list_raises, training_file_id,
                                             validation_file_id, model_name)
    /\ j_pc' = "searched"
    /\ UNCHANGED <<jobs, training_file_id, validation_file_id, model_name, job_id, requests>>
    /\ UNCHANGED <<textVars, convVars, batchVars, runVars, fileVars, ftVars, monVars, cfgVars, llmVars, chatVars>>

\* if existing_job_id: return existing_job_id
Reuse_job ==
    /\ j_pc = "searched" /\ existing_job_id # 0
    /\ job_id' = existing_job_id
    /\ requests' = Append(requests,
                          Request(training_file_id, validation_file_id, model_name, jobs,
                                  list_failed, existing_job_id, FALSE))
    /\ j_pc' = "returned"
    /\ UNCHANGED <<jobs, training_file_id, validation_file_id, model_name, list_failed,
                   existing_job_id>>
    /\ UNCHANGED <<textVars, convVars, batchVars, runVars, fileVars, ftVars, monVars, cfgVars, llmVars, chatVars>>

\* response = client.fine_tuning.jobs.create(...); return response.id.  The
\* service gives the job a new id and lists it before or after the others.
Create_job ==
    /\ j_pc = "searched" /\ existing_job_id = 0
    /\ \E create_raises \in BOOLEAN, version \in Versions, listed_first \in BOOLEAN :
           IF create_raises
           THEN /\ j_pc' = "raised"
                /\ requests' = Append(requests,
                                      Request(training_file_id, validation_file_id,
                                              model_name, jobs, list_failed, 0, FALSE))
                /\ UNCHANGED <<jobs, job_id>>
           ELSE LET new == Job(Len(jobs) + 1, training_file_id, validation_file_id,
                               model_name \o version)
                IN  /\ jobs' = IF listed_first THEN <<new>> \o jobs ELSE Append(jobs, new)
                    /\ job_id' = new.id
                    /\ requests' = Append(requests,
                                          Request(training_file_id, validation_file_id,
                                                  model_name, jobs, list_failed, new.id,
                                                  TRUE))
                    /\ j_pc' = "returned"
    /\ UNCHANGED <<training_file_id, validation_file_id, model_name, list_failed,
                   existing_job_id>>
    /\ UNCHANGED <<textVars, convVars, batchVars, runVars, fileVars, ftVars, monVars, cfgVars, llmVars, chatVars>>

\* finetune is run again, with the same or with other files and model.
Call_again ==
    /\ j_pc \in {"returned", "raised"} /\ Len(requests) < MaxCalls
    /\ training_file_id' \in TrainingFiles
    /\ validation_file_id' \in ValidationFiles
    /\ model_name' \in ModelNames
    /\ list_failed' = FALSE /\ existing_job_id' = 0 /\ job_id' = 0
    /\ j_pc' = "call"
    /\ UNCHANGED <<jobs, requests>>
    /\ UNCHANGED <<textVars, convVars, batchVars, runVars, fileVars, ftVars, monVars, cfgVars, llmVars, chatVars>>

JobNext == Find_existing \/ Reuse_job \/ Create_job \/ Call_again

---------------------------------------------------------------------------
(* commands/finetune.py: upload_finetuning_file on the files of one service *)

\* hashlib.sha1 of a file content: the hexdigest as a sequence of pieces, the
\* first of which stands for its first 7 hex digits.
sha1_hexdigest(content) ==
    CASE content = "c1" -> <<"3f2a91c", "rest-1">>
      [] content = "c2" -> <<"b07d44e", "rest-2">>

\* sha.hexdigest()[:7]
short_hash(content) == SubSeq(sha1_hexdigest(content), 1, 1)

\* os.path.getsize
getsize(content) == CASE content = "c1" -> 100 [] content = "c2" -> 200

Contents == {"c1", "c2"}
\* The local files: a training file in two versions and a validation file.
LocalFiles ==
    {[basename |-> <<"train.jsonl">>, content |-> "c1"],
     [basename |-> <<"train.jsonl">>, content |-> "c2"],
     [basename |-> <<"valid.jsonl">>, content |-> "c1"]}
FileTypes == {"training", "validation"}

\* DATASET_NAME, with ' ' replaced by '-'
ds_label == "zava-articles"

\* f"raft-{ds_label}-{file_type}-{short_hash}"
upload_name(path, type) == <<"raft-", ds_label, "-", type, "-">> \o short_hash(path.content)

Statuses == {"processed", "pending", "error"}
\* The statuses for which a reused file is not waited for.
ReadyStatuses == {"processed", "uploaded", "succeeded", "available", "ready"}
Purposes == {"fine-tune", "assistants"}

RemoteFile(fid, name, size, purpose, st) ==
    [id |-> fid, filename |-> name, bytes |-> size, purpose |-> purpose, status |-> st]

\* Files the service may hold before the first call: uploaded by other means
\* under the basename of the training file.
OtherFiles ==
    {RemoteFile(1, <<"train.jsonl">>, getsize(content), purpose, "processed") :
        content \in Contents, purpose \in Purposes}

\* The two tests of the loop body of find_existing_file; local_size 0 stands
\* for None.
file_matches(f, basename, local_size, expected_filename) ==
    /\ f.filename # <<>> /\ f.purpose = "fine-tune"
    /\ \/ expected_filename # <<>> /\ f.filename = expected_filename
       \/ f.filename = basename /\ (local_size = 0 \/ f.bytes = local_size)

\* The for loop of find_existing_file from the k-th listed file on, with the
\* ids seen so far: the first file that matches, as <<id, status>>; <<0, "">>
\* stands for (None, None).  A repeated id ends the loop.
RECURSIVE first_matching_file(_, _, _, _, _, _)
first_matching_file(listed, k, seen_ids, basename, local_size, expected_filename) ==
    IF k > Len(listed) THEN <<0, "">>
    ELSE IF listed[k].id \in seen_ids THEN <<0, "">>
    ELSE IF file_matches(listed[k], basename, local_size, expected_filename)
         THEN <<listed[k].id, listed[k].status>>
         ELSE first_matching_file(listed, k + 1, seen_ids \cup {listed[k].id}, basename,
                                  local_size, expected_filename)

\* find_existing_file(client, local_path, expected_filename): (None, None)
\* when client.files.list() raises.
find_existing_file(listed, list_raises, path, getsize_raises, expected_filename) ==
    IF list_raises THEN <<0, "">>
    ELSE first_matching_file(listed, 1, {}, path.basename,
                             IF getsize_raises THEN 0 ELSE getsize(path.content),
                             expected_filename)

\* What a finished call leaves in uploads.
Upload(path, type, before, failed, returned, uploaded) ==
    [local_path |-> path, file_type |-> type, files_before |-> before,
     list_failed |-> failed, file_id |-> returned, uploaded |-> uploaded]

FileIdle ==
    /\ u_pc = "idle" /\ files = <<>>
    /\ local_path = [basename |-> <<>>, content |-> ""] /\ file_type = ""
    /\ files_list_failed = FALSE /\ file_id = 0 /\ status = "" /\ uploads = <<>>

\* A service without files or with one file, and the first call.
FileInit ==
    /\ u_pc = "call"
    /\ files \in {<<>>} \cup {<<f>> : f \in OtherFiles}
    /\ local_path \in LocalFiles /\ file_type \in FileTypes
    /\ files_list_failed = FALSE /\ file_id = 0 /\ status = "" /\ uploads = <<>>

\* file_id, status = find_existing_file(client, local_path, expected_filename=upload_name);
\* the paginator may yield its last file again.
Find_file ==
    /\ u_pc = "call"
    /\ \E list_raises \in BOOLEAN, getsize_raises \in BOOLEAN, repeats \in BOOLEAN :
           LET listed == IF repeats /\ files # <<>>
                         THEN Append(files, files[Len(files)]) ELSE files
               found == find_existing_file(listed, list_raises, local_path, getsize_raises,
                                           upload_name(local_path, file_type))
           IN  /\ files_list_failed' = list_raises
               /\ file_id' = found[1]
               /\ status' = found[2]
    /\ u_pc' = "searched"
    /\ UNCHANGED <<files, local_path, file_type, uploads>>
    /\ UNCHANGED <<textVars, convVars, batchVars, runVars, jobVars, ftVars, monVars, cfgVars, llmVars, chatVars>>

\* if file_id: wait for the file unless its status is a ready one; return file_id
Reuse_file ==
    /\ u_pc = "searched" /\ file_id # 0
    /\ \E wait_raises \in BOOLEAN :
           IF status # "" /\ status \notin ReadyStatuses /\ wait_raises
           THEN /\ u_pc' = "raised"
                /\ uploads' = Append(uploads, Upload(local_path, file_type, files,
                                                     files_list_failed, 0, FALSE))
           ELSE /\ u_pc' = "returned"
                /\ uploads' = Append(uploads, Upload(local_path, file_type, files,
                                                     files_list_failed, file_id, FALSE))
    /\ UNCHANGED <<files, local_path, file_type, files_list_failed, file_id, status>>
    /\ UNCHANGED <<textVars, convVars, batchVars, runVars, jobVars, ftVars, monVars, cfgVars, llmVars, chatVars>>

\* resp = client.files.create(file=(upload_name, f), purpose="fine-tune");
\* sdk_wait_for_processing(client, file_id); return file_id
Upload_file ==
    /\ u_pc = "searched" /\ file_id = 0
    /\ \E create_raises \in BOOLEAN, wait_raises \in BOOLEAN, st \in Statuses :
           IF create_raises
           THEN /\ u_pc' = "raised"
                /\ uploads' = Append(uploads, Upload(local_path, file_type, files,
                                                     files_list_failed, 0, FALSE))
                /\ UNCHANGED <<files, file_id>>
           ELSE LET new == RemoteFile(Len(files) + 1, upload_name(local_path, file_type),
                                      getsize(local_path.content), "fine-tune", st)
                IN  /\ files' = Append(files, new)
                    /\ file_id' = new.id
                    /\ u_pc' = IF wait_raises \/ st = "error" THEN "raised" ELSE "returned"
                    /\ uploads' = Append(uploads,
                                         Upload(local_path, file_type, files, files_list_failed,
                                                IF wait_raises \/ st = "error" THEN 0 ELSE new.id,
                                                TRUE))
    /\ UNCHANGED <<local_path, file_type, files_list_failed, status>>
    /\ UNCHANGED <<textVars, convVars, batchVars, runVars, jobVars, ftVars, monVars, cfgVars, llmVars, chatVars>>

\* The function is called again, with the same or with another file.
Upload_again ==
    /\ u_pc \in {"returned", "raised"} /\ Len(uploads) < MaxCalls
    /\ local_path' \in LocalFiles /\ file_type' \in FileTypes
    /\ files_list_failed' = FALSE /\ file_id' = 0 /\ status' = ""
    /\ u_pc' = "call"
    /\ UNCHANGED <<files, uploads>>
    /\ UNCHANGED <<textVars, convVars, batchVars, runVars, jobVars, ftVars, monVars, cfgVars, llmVars, chatVars>>

FileNext == Find_file \/ Reuse_file \/ Upload_file \/ Upload_again

---------------------------------------------------------------------------
(* commands/finetune.py: the finetune command *)

StateKeys ==
    {"STUDENT_OPENAI_JOB_ID", "STUDENT_OPENAI_TRAINING_FILE_ID",
     "STUDENT_OPENAI_VALIDATION_FILE_ID", "STUDENT_MODEL_BASE_NAME"}

FtOptions ==
    [model : {"", "gpt-4o"}, dry_run : BOOLEAN,
     training_file : {"", "my-train.jsonl"}, validation_file : {"", "my-valid.jsonl"}]

Environs ==
    [STUDENT_MODEL_NAME : {"", "gpt-4o-mini"},
     DATASET_TRAIN_PATH : {"", "train.jsonl"},
     DATASET_VALID_PATH : {"", "valid.jsonl"}]

\* The state file before the command: empty, or written by an earlier run.
States ==
    {[key \in StateKeys |-> ""], [key \in StateKeys |-> "earlier"]}

\* a or b, for strings
or_else(a, b) == IF a # "" THEN a ELSE b

\* student_model_name = model or os.getenv("STUDENT_MODEL_NAME")
model_or_env(opts, env) == or_else(opts.model, env.STUDENT_MODEL_NAME)

\* The two paths: the options when both are given, the environment otherwise.
dataset_paths(opts, env) ==
    IF opts.training_file # "" /\ opts.validation_file # ""
    THEN <<opts.training_file, opts.validation_file>>
    ELSE <<env.DATASET_TRAIN_PATH, env.DATASET_VALID_PATH>>

\* The first part of the try block: whether it raises before the cost is
\* calculated (a missing model name, a missing path, a file that is not there).
raises_before_cost(opts, env, train_exists, valid_exists) ==
    \/ model_or_env(opts, env) = ""
    \/ dataset_paths(opts, env)[1] = ""
    \/ dataset_paths(opts, env)[2] = ""
    \/ ~train_exists
    \/ ~valid_exists

\* A slip: the flag is not looked at.
after_cost_ignores_dry_run(dry_run) == "client"

\* if dry_run: ... return
after_cost(dry_run) == IF dry_run THEN "dry_run" ELSE "client"

\* update_state(key, value)
update_state(st, key, value) == [st EXCEPT ![key] = value]

FtIdle ==
    /\ ft_pc = "idle"
    /\ ft_options = [model |-> "", dry_run |-> FALSE, training_file |-> "",
                     validation_file |-> ""]
    /\ environ = [STUDENT_MODEL_NAME |-> "", DATASET_TRAIN_PATH |-> "",
                  DATASET_VALID_PATH |-> ""]
    /\ state = [key \in StateKeys |-> ""] /\ state_at_call = [key \in StateKeys |-> ""]
    /\ student_model_name = "" /\ file_ids = <<"", "">> /\ ft_job_id = ""
    /\ upload_calls = 0 /\ create_calls = 0 /\ displayed = ""

FtInit ==
    /\ ft_pc = "start"
    /\ ft_options \in FtOptions
    /\ environ \in Environs
    /\ state \in States /\ state_at_call = state
    /\ student_model_name = "" /\ file_ids = <<"", "">> /\ ft_job_id = ""
    /\ upload_calls = 0 /\ create_calls = 0 /\ displayed = ""

\* setup_environment, the model name, the two paths, the existence tests and
\* calculate_training_cost; every exception leaves the command as a
\* ClickException.
Ft_enter ==
    /\ ft_pc = "start"
    /\ \E setup_raises \in BOOLEAN, train_exists \in BOOLEAN, valid_exists \in BOOLEAN,
          cost_raises \in BOOLEAN :
           IF \/ setup_raises
              \/ raises_before_cost(ft_options, environ, train_exists, valid_exists)
              \/ cost_raises
           THEN /\ ft_pc' = "ClickException"
                /\ UNCHANGED student_model_name
           ELSE /\ student_model_name' = model_or_env(ft_options, environ)
                /\ ft_pc' = after_cost(ft_options.dry_run)
    /\ UNCHANGED <<ft_options, environ, state, state_at_call, file_ids, ft_job_id,
                   upload_calls, create_calls, displayed>>
    /\ UNCHANGED <<textVars, convVars, batchVars, runVars, jobVars, fileVars, monVars, cfgVars, llmVars, chatVars>>

\* display_job_summary("DRY-RUN", ...); return
Ft_dry_run ==
    /\ ft_pc = "dry_run"
    /\ displayed' = "DRY-RUN"
    /\ ft_pc' = "returned"
    /\ UNCHANGED <<ft_options, environ, state, state_at_call, student_model_name, file_ids,
                   ft_job_id, upload_calls, create_calls>>
    /\ UNCHANGED <<textVars, convVars, batchVars, runVars, jobVars, fileVars, monVars, cfgVars, llmVars, chatVars>>

\* client = create_azure_openai_client()
Ft_client ==
    /\ ft_pc = "client"
    /\ \E client_raises \in BOOLEAN :
           ft_pc' = IF client_raises THEN "ClickException" ELSE "upload"
    /\ UNCHANGED <<ft_options, environ, state, state_at_call, student_model_name, file_ids,
                   ft_job_id, upload_calls, create_calls, displayed>>
    /\ UNCHANGED <<textVars, convVars, batchVars, runVars, jobVars, fileVars, monVars, cfgVars, llmVars, chatVars>>

\* training_file_id, validation_file_id = upload_training_files(...): two calls
\* of upload_finetuning_file, of which the first or the second may raise.
Ft_upload ==
    /\ ft_pc = "upload"
    /\ \E raising_call \in 0..2 :
           /\ upload_calls' = upload_calls + (IF raising_call = 1 THEN 1 ELSE 2)
           /\ IF raising_call = 0
              THEN /\ file_ids' = <<"file-1", "file-2">>
                   /\ ft_pc' = "create"
              ELSE /\ ft_pc' = "ClickException"
                   /\ UNCHANGED file_ids
    /\ UNCHANGED <<ft_options, environ, state, state_at_call, student_model_name, ft_job_id,
                   create_calls, displayed>>
    /\ UNCHANGED <<textVars, convVars, batchVars, runVars, jobVars, fileVars, monVars, cfgVars, llmVars, chatVars>>

\* job_id = create_finetuning_job(...)
Ft_create ==
    /\ ft_pc = "create"
    /\ create_calls' = create_calls + 1
    /\ \E create_raises \in BOOLEAN :
           IF create_raises
           THEN /\ ft_pc' = "ClickException"
                /\ UNCHANGED ft_job_id
           ELSE /\ ft_job_id' = "ftjob-1"
                /\ ft_pc' = "update"
    /\ UNCHANGED <<ft_options, environ, state, state_at_call, student_model_name, file_ids,
                   upload_calls, displayed>>
    /\ UNCHANGED <<textVars, convVars, batchVars, runVars, jobVars, fileVars, monVars, cfgVars, llmVars, chatVars>>

\* The four update_state calls and display_job_summary(job_id, ...).
Ft_update ==
    /\ ft_pc = "update"
    /\ state' =
           update_state(
               update_state(
                   update_state(
                       update_state(state, "STUDENT_OPENAI_JOB_ID", ft_job_id),
                       "STUDENT_OPENAI_TRAINING_FILE_ID", file_ids[1]),
                   "STUDENT_OPENAI_VALIDATION_FILE_ID", file_ids[2]),
               "STUDENT_MODEL_BASE_NAME", student_model_name)
    /\ displayed' = ft_job_id
    /\ ft_pc' = "returned"
    /\ UNCHANGED <<ft_options, environ, state_at_call, student_model_name, file_ids,
                   ft_job_id, upload_calls, create_calls>>
    /\ UNCHANGED <<textVars, convVars, batchVars, runVars, jobVars, fileVars, monVars, cfgVars, llmVars, chatVars>>

FtNext == Ft_enter \/ Ft_dry_run \/ Ft_client \/ Ft_upload \/ Ft_create \/ Ft_update

---------------------------------------------------------------------------
(* commands/deploy.py: monitor_finetuning_job *)

\* The statuses the service reports for a job.
JobStatuses == {"pending", "running", "succeeded", "failed", "cancelled"}

\* A slip: a cancelled job is not taken as finished.
is_terminal_without_cancelled(st) == st \in {"succeeded", "failed"}

\* status in ["succeeded", "failed", "cancelled"]
is_terminal(st) == st \in {"succeeded", "failed", "cancelled"}

\* The statuses a job can move to: a finished job stays as it is.
next_statuses(st) ==
    CASE st = "pending" -> {"running", "failed", "cancelled"}
      [] st = "running" -> {"succeeded", "failed", "cancelled"}
      [] OTHER -> {}

ServiceJob(st) ==
    [status |-> st, fine_tuned_model |-> IF st = "succeeded" THEN "gpt-4o-mini.ft-1" ELSE ""]

\* The if / elif / else after the loop: what the function ends with.
after_loop(st) == IF st = "succeeded" THEN "returned" ELSE "ClickException"

\* A counter that is only reported: it stops at MaxPolls.
counted(n) == IF n < MaxPolls THEN n + 1 ELSE n

MonIdle ==
    /\ m_pc = "idle" /\ service_job = ServiceJob("pending") /\ verbose = FALSE
    /\ response_status = "" /\ poll_failed = FALSE /\ polls = 0 /\ printed_statuses = 0
    /\ monitor_result = ""

\* The function is called on a job in any status.
MonInit ==
    /\ m_pc = "poll"
    /\ service_job \in {ServiceJob(st) : st \in JobStatuses}
    /\ verbose \in BOOLEAN
    /\ response_status = "" /\ poll_failed = FALSE /\ polls = 0 /\ printed_statuses = 0
    /\ monitor_result = ""

\* The job moves on while it is watched.
Job_progress ==
    /\ m_pc \in {"poll", "sleep"}
    /\ \E st \in next_statuses(service_job.status) : service_job' = ServiceJob(st)
    /\ UNCHANGED <<m_pc, verbose, response_status, poll_failed, polls, printed_statuses,
                   monitor_result>>
    /\ UNCHANGED <<textVars, convVars, batchVars, runVars, jobVars, fileVars, ftVars, cfgVars, llmVars, chatVars>>

\* response = client.fine_tuning.jobs.retrieve(job_id); status = response.status;
\* break on a terminal status; an exception becomes a ClickException.
Mon_poll ==
    /\ m_pc = "poll"
    /\ polls' = counted(polls)
    /\ \E retrieve_raises \in BOOLEAN :
           IF retrieve_raises
           THEN /\ poll_failed' = TRUE
                /\ m_pc' = "ClickException"
                /\ UNCHANGED <<response_status, printed_statuses>>
           ELSE /\ response_status' = service_job.status
                /\ printed_statuses' =
                       IF verbose THEN counted(printed_statuses) ELSE printed_statuses
                /\ m_pc' = IF is_terminal(service_job.status) THEN "after" ELSE "sleep"
                /\ UNCHANGED poll_failed
    /\ UNCHANGED <<service_job, verbose, monitor_result>>
    /\ UNCHANGED <<textVars, convVars, batchVars, runVars, jobVars, fileVars, ftVars, cfgVars, llmVars, chatVars>>

\* progress.update(...); time.sleep(10), and the loop goes round.
Mon_sleep ==
    /\ m_pc = "sleep"
    /\ m_pc' = "poll"
    /\ UNCHANGED <<service_job, verbose, response_status, poll_failed, polls,
                   printed_statuses, monitor_result>>
    /\ UNCHANGED <<textVars, convVars, batchVars, runVars, jobVars, fileVars, ftVars, cfgVars, llmVars, chatVars>>

\* After the loop: return response.fine_tuned_model, or raise.
Mon_finish ==
    /\ m_pc = "after"
    /\ m_pc' = after_loop(response_status)
    /\ monitor_result' =
           IF after_loop(response_status) = "returned"
           THEN service_job.fine_tuned_model ELSE monitor_result
    /\ UNCHANGED <<service_job, verbose, response_status, poll_failed, polls,
                   printed_statuses>>
    /\ UNCHANGED <<textVars, convVars, batchVars, runVars, jobVars, fileVars, ftVars, cfgVars, llmVars, chatVars>>

MonNext == Job_progress \/ Mon_poll \/ Mon_sleep \/ Mon_finish

---------------------------------------------------------------------------
(* commands/configure.py: the configure command *)

\* The keys of role_deployments, in the order of the dict literal.
AllRoles == <<"teacher", "student", "judge", "baseline", "embedding">>

Deployment(name, platform, roles, regions) ==
    [name |-> name, platform |-> platform, roles |-> roles, regions |-> regions]

\* The deployments an ai.yaml is made of here; platform "" is a deployment
\* without the key 'platform'.
DeploymentPool ==
    <<Deployment("gpt-4o", "aoai", {"teacher", "judge"}, {"eastus", "westus"}),
      Deployment("llama-3", "serverless", {"teacher", "student"}, {"eastus"}),
      Deployment("gpt-4o-mini", "aoai", {"student"}, {"eastus", "westus"}),
      Deployment("phi-4", "", {"teacher", "student"}, {"eastus"}),
      Deployment("mistral", "serverless", {"student", "judge"}, {"westus"})>>

\* The subsequence of seq at the positions in keep.
RECURSIVE Subsequence(_, _, _)
Subsequence(seq, keep, k) ==
    IF k > Len(seq) THEN <<>>
    ELSE (IF k \in keep THEN <<seq[k]>> ELSE <<>>) \o Subsequence(seq, keep, k + 1)

AiConfigs ==
    {Subsequence(DeploymentPool, keep, 1) : keep \in SUBSET (1..Len(DeploymentPool))}

RegionOptions == {{}, {"eastus"}, {"westus"}, {"northeurope"}}

\* get_roles: the roles some deployment has (as a set)
get_roles(config) == UNION {config[k].roles : k \in 1..Len(config)}

\* get_regions
get_regions(config) == UNION {config[k].regions : k \in 1..Len(config)}

\* {role: deployment for role, deployment in role_deployments.items() if role in roles}
RECURSIVE roles_in(_, _)
roles_in(roles, k) ==
    IF k > Len(AllRoles) THEN <<>>
    ELSE (IF AllRoles[k] \in roles THEN <<AllRoles[k]>> ELSE <<>>) \o roles_in(roles, k + 1)

\* The for loop of filter_provider_transfer_compliant_models over the items of
\* selected_platforms from the k-th on: it returns at the first teacher or
\* student item.
RECURSIVE first_selected_platform_matches(_, _, _)
first_selected_platform_matches(platform, items, k) ==
    IF k > Len(items) THEN TRUE
    ELSE IF items[k][1] \in {"teacher", "student"} THEN platform = items[k][2]
    ELSE first_selected_platform_matches(platform, items, k + 1)

\* A slip: every deployment is let through.
filter_lets_all_through(deployment, role, items) == TRUE

\* filter_provider_transfer_compliant_models(deployment, role, selected_platforms)
filter_provider_transfer_compliant_models(deployment, role, items) ==
    IF items = <<>> THEN TRUE
    ELSE IF deployment.platform = "" THEN TRUE
    ELSE IF role \in {"teacher", "student"}
         THEN first_selected_platform_matches(deployment.platform, items, 1)
         ELSE TRUE

\* Descriptor(d).is_supported_in_regions(regions)
is_supported_in_regions(deployment, regions) == deployment.regions \cap regions # {}

\* get_deployment_names(ai_config_data, regions, role, selected_platforms)
RECURSIVE get_deployment_names(_, _, _, _, _)
get_deployment_names(config, regions, role, items, k) ==
    IF k > Len(config) THEN <<>>
    ELSE (IF /\ role \in config[k].roles
             /\ is_supported_in_regions(config[k], regions)
             /\ filter_provider_transfer_compliant_models(config[k], role, items)
          THEN <<config[k].name>> ELSE <<>>)
         \o get_deployment_names(config, regions, role, items, k + 1)

\* ai_config.descriptors[name]: the first deployment of that name
descriptor(config, name) ==
    config[CHOOSE k \in 1..Len(config) :
               config[k].name = name /\ \A h \in 1..(k - 1) : config[h].name # name]

\* Whether name is among names.
is_in(name, names) == \E k \in 1..Len(names) : names[k] = name

\* The non-interactive choice: the default when it is offered, else the first name.
default_or_first(names, default) == IF is_in(default, names) THEN default ELSE names[1]

\* What an ended offer leaves in offers.
Offer(role, names, items) == [role |-> role, names |-> names, selected_platforms |-> items]

CfgIdle ==
    /\ cfg_pc = "idle" /\ ai_config = <<>> /\ region = {} /\ non_interactive = FALSE
    /\ role_deployments = <<>> /\ role_idx = 0 /\ current_regions = {}
    /\ selected_platforms = <<>> /\ selected = <<>> /\ offers = <<>> /\ selected_region = ""

CfgInit ==
    /\ cfg_pc = "start"
    /\ ai_config \in AiConfigs
    /\ region \in RegionOptions
    /\ non_interactive \in BOOLEAN
    /\ role_deployments = <<>> /\ role_idx = 0 /\ current_regions = {}
    /\ selected_platforms = <<>> /\ selected = <<>> /\ offers = <<>> /\ selected_region = ""

\* The function up to the for loop: the configuration is read, the regions are
\* restricted to --region, the roles of the configuration are kept.
Cfg_enter ==
    /\ cfg_pc = "start"
    /\ \E read_raises \in BOOLEAN :
           LET regions == IF region # {} THEN get_regions(ai_config) \cap region
                          ELSE get_regions(ai_config)
           IN  IF read_raises \/ (region # {} /\ regions = {})
               THEN /\ cfg_pc' = "ClickException"
                    /\ UNCHANGED <<role_deployments, current_regions>>
               ELSE /\ role_deployments' = roles_in(get_roles(ai_config), 1)
                    /\ current_regions' = regions
                    /\ cfg_pc' = "roles"
    /\ UNCHANGED <<ai_config, region, non_interactive, role_idx, selected_platforms,
                   selected, offers, selected_region>>
    /\ UNCHANGED <<textVars, convVars, batchVars, runVars, jobVars, fileVars, ftVars,
                   monVars, llmVars, chatVars>>

\* One round of the for loop: the names for the role, the selection, and what
\* it does to current_regions, selected_platforms and selections.
Cfg_role ==
    /\ cfg_pc = "roles" /\ role_idx < Len(role_deployments)
    /\ LET role == role_deployments[role_idx + 1]
           names == get_deployment_names(ai_config, current_regions, role,
                                         selected_platforms, 1)
       IN  IF current_regions = {}
           THEN /\ cfg_pc' = "ClickException"
                /\ UNCHANGED <<role_idx, current_regions, selected_platforms, selected,
                               offers>>
           ELSE IF names = <<>>
           THEN /\ role_idx' = role_idx + 1
                /\ UNCHANGED <<cfg_pc, current_regions, selected_platforms, selected, offers>>
           ELSE \E default \in {""} \cup {DeploymentPool[k].name : k \in 1..Len(DeploymentPool)},
                   pick \in 1..Len(names) :
                    LET selected_deployment ==
                            IF non_interactive THEN default_or_first(names, default)
                            ELSE names[pick]
                        d == descriptor(ai_config, selected_deployment)
                    IN  /\ current_regions' = current_regions \cap d.regions
                        /\ selected_platforms' =
                               IF d.platform # "" /\ role \in {"teacher", "student"}
                               THEN Append(selected_platforms, <<role, d.platform>>)
                               ELSE selected_platforms
                        /\ selected' = Append(selected, <<role, selected_deployment>>)
                        /\ offers' = Append(offers, Offer(role, names, selected_platforms))
                        /\ role_idx' = role_idx + 1
                        /\ UNCHANGED cfg_pc
    /\ UNCHANGED <<ai_config, region, non_interactive, role_deployments, selected_region>>
    /\ UNCHANGED <<textVars, convVars, batchVars, runVars, jobVars, fileVars, ftVars,
                   monVars, llmVars, chatVars>>

\* After the loop: the final region is selected and the summary is shown.
Cfg_region ==
    /\ cfg_pc = "roles" /\ role_idx = Len(role_deployments)
    /\ IF current_regions = {}
       THEN /\ cfg_pc' = "ClickException"
            /\ UNCHANGED selected_region
       ELSE /\ selected_region' \in current_regions
            /\ cfg_pc' = "returned"
    /\ UNCHANGED <<ai_config, region, non_interactive, role_deployments, role_idx,
                   current_regions, selected_platforms, selected, offers>>
    /\ UNCHANGED <<textVars, convVars, batchVars, runVars, jobVars, fileVars, ftVars,
                   monVars, llmVars, chatVars>>

CfgNext == Cfg_enter \/ Cfg_role \/ Cfg_region

---------------------------------------------------------------------------
(* llms/create_client_llm.py: CreateClientLLM *)

\* The characters of the endpoint names: LONG_S is U+017F, the long s, a
\* lowercase letter whose uppercase is S.
LONG_S == "LONG_S"

\* str.lower, character by character
lower_char(ch) ==
    CASE ch = "B" -> "b" [] ch = "S" -> "s" [] ch = "F" -> "f" [] OTHER -> ch

\* str.upper, character by character
upper_char(ch) ==
    CASE ch = "b" -> "B" [] ch = "s" -> "S" [] ch = "f" -> "F" [] ch = LONG_S -> "S"
      [] OTHER -> ch

\* endpoint.lower()
lower(text) == [k \in 1..Len(text) |-> lower_char(text[k])]

\* env_prefix.upper()
upper(text) == [k \in 1..Len(text) |-> upper_char(text[k])]

\* The endpoints chat is called with.
Endpoints == {<<"f">>, <<"F">>, <<"b", "s">>, <<"B", "S">>, <<"b", LONG_S>>}

\* env_prefix in self._clients
is_cached(cache, key) == \E item \in cache : item.key = key

\* self._clients[env_prefix]
cached_client(cache, key) == (CHOOSE item \in cache : item.key = key).client

\* self._clients[key] = (client, model)
cache_put(cache, key, client) ==
    {item \in cache : item.key # key} \cup {[key |-> key, client |-> client]}

\* The key _create_and_cache stores the pair under: pref_upper.lower()
cache_key(pref_upper) == lower(pref_upper)

\* What a finished chat call leaves in chat_calls.
ChatCall(endpoint, client, created, outcome) ==
    [endpoint |-> endpoint, client |-> client, created |-> created, outcome |-> outcome]

\* How client.chat.completions.create and the reading of the response end.
Completions == {"content", "raises", "no content"}

LlmIdle ==
    /\ l_pc = "idle" /\ clients = {} /\ create_client_calls = <<>> /\ chat_calls = <<>>

\* CreateClientLLM()
LlmInit ==
    /\ l_pc = "ready" /\ clients = {} /\ create_client_calls = <<>> /\ chat_calls = <<>>

\* chat(messages, endpoint) on an endpoint whose key is in self._clients
Chat_cached ==
    /\ l_pc = "ready" /\ Len(chat_calls) < MaxCalls
    /\ \E endpoint \in Endpoints, completion \in Completions :
           LET env_prefix == lower(endpoint)
           IN  /\ is_cached(clients, env_prefix)
               /\ chat_calls' =
                      Append(chat_calls,
                             ChatCall(endpoint, cached_client(clients, env_prefix), FALSE,
                                      IF completion = "content" THEN "returned"
                                      ELSE "raised"))
    /\ UNCHANGED <<l_pc, clients, create_client_calls>>
    /\ UNCHANGED <<textVars, convVars, batchVars, runVars, jobVars, fileVars, ftVars,
                   monVars, cfgVars, chatVars>>

\* chat(messages, endpoint) on an endpoint whose key is not in self._clients:
\* _create_and_cache(env_prefix.upper()), then the call of the model.
Chat_create ==
    /\ l_pc = "ready" /\ Len(chat_calls) < MaxCalls
    /\ \E endpoint \in Endpoints, create_raises \in BOOLEAN, completion \in Completions :
           LET env_prefix == lower(endpoint)
               pref_upper == upper(env_prefix)
               client == Len(create_client_calls) + 1
           IN  /\ ~is_cached(clients, env_prefix)
               /\ IF create_raises
                  THEN /\ create_client_calls' =
                              Append(create_client_calls, [prefix |-> pref_upper, client |-> 0])
                       /\ chat_calls' = Append(chat_calls,
                                               ChatCall(endpoint, 0, FALSE, "raised"))
                       /\ UNCHANGED clients
                  ELSE /\ create_client_calls' =
                              Append(create_client_calls,
                                     [prefix |-> pref_upper, client |-> client])
                       /\ clients' = cache_put(clients, cache_key(pref_upper), client)
                       /\ chat_calls' =
                              Append(chat_calls,
                                     ChatCall(endpoint, client, TRUE,
                                              IF completion = "content" THEN "returned"
                                              ELSE "raised"))
    /\ UNCHANGED l_pc
    /\ UNCHANGED <<textVars, convVars, batchVars, runVars, jobVars, fileVars, ftVars,
                   monVars, cfgVars, chatVars>>

LlmNext == Chat_cached \/ Chat_create

---------------------------------------------------------------------------
(* chat.py: the persisted chats and open_chat_tui *)

\* A character console.input can return for a byte that is not UTF-8 and that
\* an utf-8 file refuses to encode.
LONE_SURROGATE == "LONE_SURROGATE"

ChatIds == {"c1", "c2"}
UserInputs == {"hi", LONE_SURROGATE}
Replies == {"ok", ""}
SwitchArguments == {"", "baseline", "FINETUNE"}

to_lower(text) == IF text = "FINETUNE" THEN "finetune" ELSE text

user_msg(user_input) == [role |-> "user", content |-> user_input]
assistant_msg(assistant_content, endpoint) ==
    [role |-> "assistant", content |-> assistant_content, endpoint |-> endpoint]

EmptyDict == [id \in {} |-> 0]

\* chats[key] = value
dict_set(chats, key, value) ==
    [id \in DOMAIN chats \cup {key} |-> IF id = key THEN value ELSE chats[id]]

\* load_chats: {} when the file does not exist and when reading it raises.
load_chats(file, read_raises) == IF read_raises THEN EmptyDict ELSE file

\* json.dump into a file opened with encoding="utf-8" raises on a lone surrogate.
dumps_as_utf8(chats) ==
    \A id \in DOMAIN chats : \A k \in 1..Len(chats[id].messages) :
        chats[id].messages[k].content # LONE_SURROGATE

\* save_chats: the file after the call; it is replaced only when the temporary
\* file was written, and every exception ends in a printed line.
save_chats(file, chats, write_raises) ==
    IF write_raises \/ ~dumps_as_utf8(chats) THEN file ELSE chats

\* chats = load_chats(); chats[chat["id"]] = chat; save_chats(chats)
persist(file, c, read_raises, write_raises) ==
    save_chats(file, dict_set(load_chats(file, read_raises), c.id, c), write_raises)

\* /switch with or without an argument
new_ep(argument, endpoint) ==
    IF argument # "" THEN to_lower(argument)
    ELSE IF endpoint = "finetune" THEN "baseline" ELSE "finetune"

StoredChat(id, endpoint, messages) == [id |-> id, endpoint |-> endpoint, messages |-> messages]

ChatIdle ==
    /\ tui_pc = "idle"
    /\ chats_file = EmptyDict
    /\ chat = StoredChat("", "", <<>>)
    /\ current_endpoint = ""
    /\ file_before = EmptyDict
    /\ last_step = "none"

\* The chat command opens a chat of the file (a new one was saved by
\* create_new_chat); the file may hold another chat.
ChatInit ==
    /\ tui_pc = "prompt"
    /\ \E endpoint \in {"finetune", "baseline"},
          messages \in {<<>>, <<user_msg("hi"), assistant_msg("ok", "finetune")>>},
          others \in SUBSET {"c2"} :
           /\ chat = StoredChat("c1", endpoint, messages)
           /\ chats_file = [id \in {"c1"} \cup others |->
                               IF id = "c1" THEN StoredChat("c1", endpoint, messages)
                               ELSE StoredChat(id, "baseline", <<user_msg("keep")>>)]
           /\ current_endpoint = to_lower(endpoint)
    /\ file_before = chats_file
    /\ last_step = "none"

\* /switch [endpoint]
Tui_switch ==
    /\ tui_pc = "prompt"
    /\ \E argument \in SwitchArguments, read_raises \in BOOLEAN, write_raises \in BOOLEAN :
           LET ep == new_ep(argument, current_endpoint)
               c == [chat EXCEPT !.endpoint = ep]
           IN  /\ current_endpoint' = ep
               /\ chat' = c
               /\ chats_file' = persist(chats_file, c, read_raises, write_raises)
    /\ file_before' = chats_file
    /\ last_step' = "switch"
    /\ UNCHANGED tui_pc
    /\ UNCHANGED <<textVars, convVars, batchVars, runVars, jobVars, fileVars, ftVars,
                 monVars, cfgVars, llmVars>>

\* /save
Tui_save ==
    /\ tui_pc = "prompt"
    /\ \E read_raises \in BOOLEAN, write_raises \in BOOLEAN :
           chats_file' = persist(chats_file, chat, read_raises, write_raises)
    /\ file_before' = chats_file
    /\ last_step' = "save"
    /\ UNCHANGED <<tui_pc, chat, current_endpoint>>
    /\ UNCHANGED <<textVars, convVars, batchVars, runVars, jobVars, fileVars, ftVars,
                 monVars, cfgVars, llmVars>>

\* /exit, /quit, Ctrl-C and end of input
Tui_exit ==
    /\ tui_pc = "prompt"
    /\ \E read_raises \in BOOLEAN, write_raises \in BOOLEAN :
           chats_file' = persist(chats_file, chat, read_raises, write_raises)
    /\ file_before' = chats_file
    /\ last_step' = "save"
    /\ tui_pc' = "exited"
    /\ UNCHANGED <<chat, current_endpoint>>
    /\ UNCHANGED <<textVars, convVars, batchVars, runVars, jobVars, fileVars, ftVars,
                 monVars, cfgVars, llmVars>>

\* A line that is not a command: appended, persisted, then the model is called.
Tui_user_message ==
    /\ tui_pc = "prompt"
    /\ Len(chat.messages) < MaxMessages
    /\ \E user_input \in UserInputs, read_raises \in BOOLEAN, write_raises \in BOOLEAN :
           LET c == [chat EXCEPT !.messages = Append(@, user_msg(user_input))]
           IN  /\ chat' = c
               /\ chats_file' = persist(chats_file, c, read_raises, write_raises)
    /\ file_before' = chats_file
    /\ last_step' = "user"
    /\ tui_pc' = "calling"
    /\ UNCHANGED current_endpoint
    /\ UNCHANGED <<textVars, convVars, batchVars, runVars, jobVars, fileVars, ftVars,
                 monVars, cfgVars, llmVars>>

\* The model answers: an empty answer is dropped, any other is appended and
\* persisted.
Tui_reply ==
    /\ tui_pc = "calling"
    /\ \E assistant_content \in Replies, read_raises \in BOOLEAN, write_raises \in BOOLEAN :
           IF assistant_content = ""
           THEN /\ last_step' = "empty"
                /\ UNCHANGED <<chat, chats_file>>
           ELSE LET c == [chat EXCEPT !.messages =
                              Append(@, assistant_msg(assistant_content, current_endpoint))]
                IN  /\ chat' = c
                    /\ chats_file' = persist(chats_file, c, read_raises, write_raises)
                    /\ last_step' = "reply"
    /\ file_before' = chats_file
    /\ tui_pc' = "prompt"
    /\ UNCHANGED current_endpoint
    /\ UNCHANGED <<textVars, convVars, batchVars, runVars, jobVars, fileVars, ftVars,
                 monVars, cfgVars, llmVars>>

\* Creating the client or the completion raises.
Tui_call_failed ==
    /\ tui_pc = "calling"
    /\ file_before' = chats_file
    /\ last_step' = "failed"
    /\ tui_pc' = "prompt"
    /\ UNCHANGED <<chat, chats_file, current_endpoint>>
    /\ UNCHANGED <<textVars, convVars, batchVars, runVars, jobVars, fileVars, ftVars,
                 monVars, cfgVars, llmVars>>

ChatNext ==
    \/ Tui_switch
    \/ Tui_save
    \/ Tui_exit
    \/ Tui_user_message
    \/ Tui_reply
    \/ Tui_call_failed

---------------------------------------------------------------------------
(* Specifications *)

\* The batch reformatter on a bounded input.
Init == TextIdle /\ ConvIdle /\ BatchInit /\ RunIdle /\ JobIdle /\ FileIdle /\ FtIdle /\ MonIdle /\ CfgIdle /\ LlmIdle /\ ChatIdle
Next == BatchNext
Spec == Init /\ [][Next]_vars

\* One call of a function of format_documents.py.
InitText == TextInit /\ ConvIdle /\ BatchIdle /\ RunIdle /\ JobIdle /\ FileIdle /\ FtIdle /\ MonIdle /\ CfgIdle /\ LlmIdle /\ ChatIdle
SpecText == InitText /\ [][TextNext]_vars

\* reformat_ai_conversation on a bounded conversation, then on its own output.
InitConv == TextIdle /\ ConvInit /\ BatchIdle /\ RunIdle /\ JobIdle /\ FileIdle /\ FtIdle /\ MonIdle /\ CfgIdle /\ LlmIdle /\ ChatIdle
SpecConv == InitConv /\ [][ConvNext]_vars

\* One invocation of the run command, for every choice of its skip flags.
InitRun == TextIdle /\ ConvIdle /\ BatchIdle /\ RunInit /\ JobIdle /\ FileIdle /\ FtIdle /\ MonIdle /\ CfgIdle /\ LlmIdle /\ ChatIdle
SpecRun == InitRun /\ [][RunNext]_vars

\* create_finetuning_job called up to MaxCalls times on one service.
InitJobs == TextIdle /\ ConvIdle /\ BatchIdle /\ RunIdle /\ JobInit /\ FileIdle /\ FtIdle /\ MonIdle /\ CfgIdle /\ LlmIdle /\ ChatIdle
SpecJobs == InitJobs /\ [][JobNext]_vars

\* upload_finetuning_file called up to MaxCalls times on one service.
InitFiles == TextIdle /\ ConvIdle /\ BatchIdle /\ RunIdle /\ JobIdle /\ FileInit /\ FtIdle /\ MonIdle /\ CfgIdle /\ LlmIdle /\ ChatIdle
SpecFiles == InitFiles /\ [][FileNext]_vars

\* One invocation of the finetune command, for every choice of its options.
InitFt == TextIdle /\ ConvIdle /\ BatchIdle /\ RunIdle /\ JobIdle /\ FileIdle /\ FtInit /\ MonIdle /\ CfgIdle /\ LlmIdle /\ ChatIdle
SpecFt == InitFt /\ [][FtNext]_vars

\* monitor_finetuning_job on a job that may move on.  The function is
\* sequential code that keeps running: each of its steps is taken when it is
\* its turn; nothing is assumed of the job.
InitMonitor == TextIdle /\ ConvIdle /\ BatchIdle /\ RunIdle /\ JobIdle /\ FileIdle /\ FtIdle /\ MonInit /\ CfgIdle /\ LlmIdle /\ ChatIdle
MonFair == WF_vars(Mon_poll) /\ WF_vars(Mon_sleep) /\ WF_vars(Mon_finish)
SpecMonitor == InitMonitor /\ [][MonNext]_vars /\ MonFair

\* One invocation of the configure command, for every ai.yaml made of the pool.
InitConfigure == TextIdle /\ ConvIdle /\ BatchIdle /\ RunIdle /\ JobIdle /\ FileIdle /\ FtIdle /\ MonIdle /\ CfgInit /\ LlmIdle /\ ChatIdle
SpecConfigure == InitConfigure /\ [][CfgNext]_vars

\* Up to MaxCalls calls of chat on one CreateClientLLM object.
InitLlm == TextIdle /\ ConvIdle /\ BatchIdle /\ RunIdle /\ JobIdle /\ FileIdle /\ FtIdle /\ MonIdle /\ CfgIdle /\ LlmInit /\ ChatIdle
SpecLlm == InitLlm /\ [][LlmNext]_vars

\* One stay in open_chat_tui on a chat of the file.
InitChat == TextIdle /\ ConvIdle /\ BatchIdle /\ RunIdle /\ JobIdle /\ FileIdle /\ FtIdle /\ MonIdle /\ CfgIdle /\ LlmIdle /\ ChatInit
SpecChat == InitChat /\ [][ChatNext]_vars

---------------------------------------------------------------------------
(* Properties of reformat_ai_conversation (SpecConv) *)

role_of(msg) == get(msg, "role", "unknown")
content_of(msg) == get(msg, "content", <<>>)

\* The user turns among the first n messages whose content holds <DOCUMENT>.
DocumentTurns(messages, n) ==
    {k \in 1..n : role_of(messages[k]) = "user" /\ has_symbol(content_of(messages[k]), DOC_OPEN)}

\* The documents of the most recent such turn among the first n messages.
DocumentsInForce(messages, n) ==
    LET turns == DocumentTurns(messages, n)
    IN  IF turns = {} THEN <<>>
        ELSE extract_documents(
                 content_of(messages[CHOOSE k \in turns : \A j \in turns : j <= k]))

\* C1: at every point of the loop the running documents list is the document
\* set of the most recent user message so far that contains <DOCUMENT> (empty
\* when there is none: it starts empty, is replaced at each such turn and is left
\* alone by every other message), and every assistant message that contains
\* ##begin_quote## has been cited against the list in force before it.
C1_RunningDocuments ==
    (c_pc \in {"loop", "returned"} /\ conversation.has_messages) =>
        /\ documents_list = DocumentsInForce(conversation.messages, idx)
        /\ \A k \in 1..idx :
               LET msg == conversation.messages[k]
               IN  (role_of(msg) = "assistant" /\ has_symbol(content_of(msg), BEGIN_QUOTE))
                   => reformatted_conv.messages[k].content =
                          reformat_quotes_with_citations(
                              content_of(msg),
                              DocumentsInForce(conversation.messages, k - 1))

\* Two user turns with documents, then a quote of the first turn's document:
\* it is cited against the second turn's documents only, so it gets no citation.
C1_Witness ==
    /\ c_pc = "returned" /\ call_no = 1 /\ idx = 3
    /\ conversation.messages[1] = [role |-> "user", content |-> DOC_A_QUESTION]
    /\ conversation.messages[2] = [role |-> "user", content |-> DOC_B]
    /\ conversation.messages[3] = [role |-> "assistant", content |-> QUOTE_A]
    /\ documents_list = <<<<"b">>>>
    /\ reformatted_conv.messages[3].content = BACKTICK \o <<"a">> \o BACKTICK

\* C3 (as claimed): every output message has the role of the input message and
\* the same value for every field of it other than content.
C3_FieldsPassThrough ==
    (c_pc \in {"loop", "returned"} /\ call_no = 1) =>
        \A k \in 1..Len(reformatted_conv.messages) :
            \A f \in (DOMAIN conversation.messages[k]) \ {"content"} :
                /\ f \in DOMAIN reformatted_conv.messages[k]
                /\ reformatted_conv.messages[k][f] = conversation.messages[k][f]

\* A complete ##begin_quote##...##end_quote## span.
HasQuoteSpan(content) ==
    \E i, j \in 1..Len(content) :
        i < j /\ content[i] = BEGIN_QUOTE /\ content[j] = END_QUOTE

NoMarkerLeft(conv) ==
    \A k \in 1..Len(conv.messages) :
        /\ ~has_symbol(conv.messages[k].content, DOC_OPEN)
        /\ ~has_symbol(conv.messages[k].content, BEGIN_QUOTE)

\* C7 (as claimed): no marker is left in the output of the first call, so the
\* second call, on that output, returns it unchanged.
C7_Idempotent ==
    (c_pc = "returned" /\ call_no = 2) => reformatted_conv = conversation

\* C7 (amended): the second call returns the output of the first unchanged
\* exactly when no assistant message of that output still holds a complete
\* quote span; in particular it does whenever no marker is left.
C7_IdempotentUnlessQuoteSpanLeft ==
    (c_pc = "returned" /\ call_no = 2) =>
        /\ (reformatted_conv = conversation) <=>
               ~\E k \in 1..Len(conversation.messages) :
                    /\ conversation.messages[k].role = "assistant"
                    /\ HasQuoteSpan(conversation.messages[k].content)
        /\ NoMarkerLeft(conversation) => reformatted_conv = conversation

\* A conversation the first call rewrote, with a marker left in its output (an
\* unclosed tag), that the second call returns unchanged.
C7_Witness ==
    /\ c_pc = "returned" /\ call_no = 2
    /\ first_input # conversation
    /\ ~NoMarkerLeft(conversation)
    /\ reformatted_conv = conversation
    /\ \E k \in 1..Len(first_input.messages) :
           /\ first_input.messages[k] = [role |-> "assistant", content |-> QUOTE_A]
           /\ conversation.messages[k].content # QUOTE_A

Max(S) == CHOOSE i \in S : \A j \in S : j <= i

\* The number a digit symbol stands for.
DigitValue(sym) == CHOOSE d \in 0..9 : Digit[d + 1] = sym

\* The text in backticks that a citation starting at position p follows:
\* ... GRAVE quote GRAVE space [n]
QuoteBefore(text, p) ==
    LET close == p - 2
        open == Max({q \in 1..(close - 1) : text[q] = "GRAVE"})
    IN  SubSeq(text, open + 1, close - 1)

\* The positions of the opening brackets of a text, in order.
BracketAt(text, n) ==
    CHOOSE p \in {q \in 1..Len(text) : text[q] = "["} :
        Cardinality({q \in 1..(p - 1) : text[q] = "["}) = n - 1

\* What the line of a Sources list that starts with the n-th bracket holds after
\* its "[n] ": the text up to the end of the line.
SourceLineText(text, n) ==
    LET p == BracketAt(text, n)
        ends == {q \in p..Len(text) : text[q] = "\n"}
        stop == IF ends = {} THEN Len(text) + 1 ELSE CHOOSE q \in ends : \A r \in ends : q <= r
    IN  [marker |-> SubSeq(text, p, p + 2), text |-> SubSeq(text, p + 4, stop - 1)]

\* The user turns among the first n messages whose reformatted content lists
\* sources.
SourceTurns(messages, n) ==
    {j \in DocumentTurns(messages, n) : extract_documents(content_of(messages[j])) # <<>>}

\* C13: every citation [n] in a reformatted assistant message refers to a
\* source line of the most recent reformatted user message that lists
\* sources: 1 <= n <= number of its source lines, and the line it numbers [n]
\* holds a document text that contains the quote (both whitespace-normalized).
C13_CitationMatchesSourceLine ==
    (c_pc \in {"loop", "returned"} /\ call_no = 1 /\ conversation.has_messages) =>
        \A k \in 1..idx :
            LET msg == conversation.messages[k]
                out == reformatted_conv.messages[k].content
            IN  (role_of(msg) = "assistant" /\ has_symbol(content_of(msg), BEGIN_QUOTE)) =>
                    \A p \in {q \in 1..Len(out) : out[q] = "["} :
                        LET n == DigitValue(out[p + 1])
                            turns == SourceTurns(conversation.messages, k - 1)
                            sources == reformatted_conv.messages[Max(turns)].content
                        IN  /\ turns # {}
                            /\ 1 <= n
                            /\ n <= Cardinality({q \in 1..Len(sources) : sources[q] = "["})
                            /\ SourceLineText(sources, n).marker = bracketed(n)
                            /\ contains(normalize_text(SourceLineText(sources, n).text),
                                        normalize_text(QuoteBefore(out, p)))

\* Two documents, the second of which holds the quote: the quote is cited [2]
\* and the line numbered [2] of the Sources list holds that document.
C13_Witness ==
    /\ c_pc = "returned" /\ call_no = 1 /\ idx = 2
    /\ conversation.messages[1] = [role |-> "user", content |-> DOCS_B_A]
    /\ conversation.messages[2] = [role |-> "assistant", content |-> QUOTE_A]
    /\ reformatted_conv.messages[2].content =
           BACKTICK \o <<"a">> \o BACKTICK \o <<" ", "[", "2", "]">>
    /\ SourceLineText(reformatted_conv.messages[1].content, 2).text = <<"a">>

\* C14: the call leaves its argument as it was (the conversation and each of
\* its messages have the values they had when the call began), and the dict it
\* returns is not the dict it was given.
C14_InputNotMutated ==
    /\ c_pc \in {"loop", "returned", "raised"} => conversation = input_at_call
    /\ c_pc \in {"loop", "returned"} => reformatted_id # conversation_id

\* A call that rewrote a message: the result differs from the argument, which
\* is as it was.
C14_Witness ==
    /\ c_pc = "returned" /\ call_no = 1
    /\ conversation = Conversation(<<[role |-> "user", content |-> DOC_A_QUESTION]>>)
    /\ conversation = input_at_call
    /\ reformatted_conv # conversation
    /\ reformatted_id = 3 /\ conversation_id = 1

\* The content the k-th output message is to hold, given the input messages.
ExpectedContent(messages, k) ==
    LET msg == messages[k]
    IN  IF role_of(msg) = "user" /\ has_symbol(content_of(msg), DOC_OPEN)
        THEN reformat_user_documents(content_of(msg))
        ELSE IF role_of(msg) = "assistant" /\ has_symbol(content_of(msg), BEGIN_QUOTE)
        THEN reformat_quotes_with_citations(content_of(msg), DocumentsInForce(messages, k - 1))
        ELSE content_of(msg)

\* C15: the output holds one message per input message the loop has passed, in
\* the same order: the k-th output message has the role of the k-th input
\* message and the content derived from it; at the return every input message
\* has been passed.
C15_OneOutputPerInput ==
    (c_pc \in {"loop", "returned"} /\ conversation.has_messages) =>
        /\ Len(reformatted_conv.messages) = idx
        /\ c_pc = "returned" => idx = Len(conversation.messages)
        /\ \A k \in 1..idx :
               /\ reformatted_conv.messages[k].role = role_of(conversation.messages[k])
               /\ reformatted_conv.messages[k].content =
                      ExpectedContent(conversation.messages, k)

\* Three messages of three roles, two of them rewritten.
C15_Witness ==
    /\ c_pc = "returned" /\ call_no = 1
    /\ conversation =
           Conversation(<<[role |-> "system", content |-> QUOTE_A],
                          [role |-> "user", content |-> DOC_A_QUESTION],
                          [role |-> "assistant", content |-> QUOTE_A]>>)
    /\ Len(reformatted_conv.messages) = 3
    /\ reformatted_conv.messages[1].content = QUOTE_A
    /\ reformatted_conv.messages[3].content =
           BACKTICK \o <<"a">> \o BACKTICK \o <<" ", "[", "1", "]">>

\* C16: on a dict that is empty or has no key 'messages' the function raises
\* nothing and returns a conversation whose messages list is empty.
C16_EmptyConversation ==
    (conversation.type = "object" /\ (conversation.empty \/ ~conversation.has_messages)) =>
        /\ c_pc # "raised"
        /\ c_pc = "returned" => reformatted_conv = Conversation(<<>>)

\* A non-empty dict without the key.
C16_Witness ==
    /\ c_pc = "returned" /\ call_no = 1
    /\ conversation = NoMessagesObject
    /\ reformatted_conv = Conversation(<<>>)

---------------------------------------------------------------------------
(* Properties of the functions of format_documents.py (SpecText) *)

\* text with every run of whitespace collapsed to one space and none at its ends
RECURSIVE Collapsed(_, _)
Collapsed(text, p) ==
    IF p > Len(text) THEN <<>>
    ELSE IF text[p] \notin Whitespace THEN <<text[p]>> \o Collapsed(text, p + 1)
    ELSE IF /\ p > 1
            /\ text[p - 1] \notin Whitespace
            /\ \E q \in (p + 1)..Len(text) : text[q] \notin Whitespace
         THEN <<" ">> \o Collapsed(text, p + 1)
         ELSE Collapsed(text, p + 1)

\* The numbers of the documents whose normalized text contains the normalized
\* trimmed quote.
CitingDocuments(q, docs) ==
    {i \in 1..Len(docs) : contains(Collapsed(docs[i], 1), Collapsed(strip(q), 1))}

Least(S) == CHOOSE i \in S : \A j \in S : i <= j

\* C2: for every quote span that some document contains, replace_quote emits
\* the trimmed quote in backticks followed by [i], i the least number of a
\* document whose normalized text contains the normalized quote.
C2_EarliestDocumentCited ==
    (fn = "reformat_quotes_with_citations" /\ t_pc = "sub"
     /\ CitingDocuments(quote, documents) # {}) =>
        replacement = BACKTICK \o strip(quote) \o BACKTICK \o <<" ">>
                      \o bracketed(Least(CitingDocuments(quote, documents)))

\* Both documents contain the quote (the first only after normalization):
\* the first is cited.
C2_Witness ==
    /\ fn = "reformat_quotes_with_citations" /\ t_pc = "sub"
    /\ documents = <<<<"a", "\n", " ", "a">>, <<"a">>>>
    /\ quote = <<" ", "a">>
    /\ CitingDocuments(quote, documents) = {1, 2}
    /\ replacement = BACKTICK \o <<"a">> \o BACKTICK \o <<" ", "[", "1", "]">>

\* The positions of the opening brackets of a text, and the text at a position.
Brackets(text) == {p \in 1..Len(text) : text[p] = "["}
TextAt(text, p, piece) == SubSeq(text, p, p + Len(piece) - 1) = piece
EndsWith(text, piece) ==
    Len(piece) <= Len(text) /\ SubSeq(text, Len(text) - Len(piece) + 1, Len(text)) = piece

\* The trimmed text after the last closing tag.
TrailingText(text) ==
    LET closes == {p \in 1..Len(text) : text[p] = DOC_CLOSE}
        last == CHOOSE p \in closes : \A q \in closes : q <= p
    IN  IF closes = {} THEN <<>> ELSE strip(SubSeq(text, last + 1, Len(text)))

\* C9: on a message with N >= 1 document spans, the output holds exactly N
\* bracketed markers, the k-th being [k] followed by the k-th extracted
\* document; it ends with the trimmed text after the last closing tag when that
\* is not empty, and with the last source line when it is.
C9_MarkersAndQuestion ==
    (fn = "reformat_user_documents" /\ t_pc = "done"
     /\ extract_documents(message) # <<>>) =>
        LET docs == extract_documents(message)
            N == Len(docs)
            Q == TrailingText(message)
        IN  /\ Cardinality(Brackets(result)) = N
            /\ \A k \in 1..N :
                   \E p \in Brackets(result) :
                       /\ Cardinality({q \in Brackets(result) : q < p}) = k - 1
                       /\ TextAt(result, p, bracketed(k) \o <<" ">> \o docs[k])
            /\ Q # <<>> => EndsWith(result, NEWLINE \o NEWLINE \o Q)
            /\ Q = <<>> => EndsWith(result, bracketed(N) \o <<" ">> \o docs[N])

\* Two documents and a question.
C9_Witness ==
    /\ fn = "reformat_user_documents" /\ t_pc = "done"
    /\ message = <<DOC_OPEN, DOC_CLOSE, DOC_OPEN, DOC_CLOSE, "a">>
    /\ Cardinality(Brackets(result)) = 2
    /\ EndsWith(result, <<"]", " ", "\n", "\n", "a">>)

\* C10: a message without a document span is returned as it is.
C10_IdentityWithoutDocuments ==
    (fn = "reformat_user_documents" /\ t_pc = "done"
     /\ ~\E i, j \in 1..Len(message) :
            i < j /\ message[i] = DOC_OPEN /\ message[j] = DOC_CLOSE) =>
        result = message

\* A message without any tag, with whitespace at both ends.
C10_Witness ==
    /\ fn = "reformat_user_documents" /\ t_pc = "done"
    /\ message = <<" ", "a", " ">>
    /\ result = message

\* The nesting depth of the document tags after the first p symbols.
RECURSIVE Depth(_, _)
Depth(text, p) ==
    IF p = 0 THEN 0
    ELSE Depth(text, p - 1)
         + (IF text[p] = DOC_OPEN THEN 1 ELSE IF text[p] = DOC_CLOSE THEN -1 ELSE 0)

\* Every opening tag has its closing tag after it, and the other way round.
Balanced(text) ==
    /\ Depth(text, Len(text)) = 0
    /\ \A p \in 1..Len(text) : Depth(text, p) >= 0

\* Balanced, and no pair inside another: opening and closing tags alternate.
Alternating(text) == Balanced(text) /\ \A p \in 1..Len(text) : Depth(text, p) <= 1

\* The positions of the opening tags; each opens one pair.
Opens(text) == {p \in 1..Len(text) : text[p] = DOC_OPEN}

\* The closing tag of the pair that the tag at position i opens.
MatchingClose(text, i) ==
    LET closes == {j \in (i + 1)..Len(text) :
                       text[j] = DOC_CLOSE /\ Depth(text, j) = Depth(text, i) - 1}
    IN  CHOOSE j \in closes : \A r \in closes : j <= r

\* docs holds one element per tag pair, the k-th being the trimmed inner text
\* of the k-th pair from the left.
PairsExtracted(text, docs) ==
    /\ Len(docs) = Cardinality(Opens(text))
    /\ \A i \in Opens(text) :
           docs[Cardinality({q \in Opens(text) : q <= i})] =
               strip(SubSeq(text, i + 1, MatchingClose(text, i) - 1))

\* C11 (as claimed): on every text with balanced tags extract_documents
\* returns one element per tag pair, the k-th being the trimmed inner text of
\* the k-th pair; on a text without tags it returns the empty sequence.
C11_BalancedTags ==
    (fn = "extract_documents" /\ t_pc = "done" /\ Balanced(message)) =>
        PairsExtracted(message, result)

\* C11 (amended): the same for every text whose tags are balanced and not
\* nested (each opening tag is closed before the next one opens).
C11_AlternatingTags ==
    (fn = "extract_documents" /\ t_pc = "done" /\ Alternating(message)) =>
        /\ PairsExtracted(message, result)
        /\ Opens(message) = {} => result = <<>>

\* Two pairs, the second empty.
C11_Witness ==
    /\ fn = "extract_documents" /\ t_pc = "done"
    /\ message = <<DOC_OPEN, "a", DOC_CLOSE, DOC_OPEN, DOC_CLOSE>>
    /\ result = <<<<"a">>, <<>>>>

\* C12: a quote span that no document contains (as it is whenever there are no
\* documents) is replaced by the trimmed quote in backticks and nothing more;
\* with no documents the whole output holds no bracket.
C12_NoCitationWithoutMatch ==
    /\ (fn = "reformat_quotes_with_citations" /\ t_pc = "sub"
        /\ CitingDocuments(quote, documents) = {}) =>
           replacement = BACKTICK \o strip(quote) \o BACKTICK
    /\ (fn = "reformat_quotes_with_citations" /\ t_pc = "done" /\ documents = <<>>) =>
           Brackets(result) = {}

\* A quote of a text that the only document does not hold.
C12_Witness ==
    /\ fn = "reformat_quotes_with_citations" /\ t_pc = "sub"
    /\ documents = <<<<"b">>>>
    /\ quote = <<"a", " ">>
    /\ replacement = BACKTICK \o <<"a">> \o BACKTICK

---------------------------------------------------------------------------
(* Properties of the batch reformatter (Spec) *)

\* A line that holds something besides whitespace.
NonBlank(line) == line.text.kind # "empty"

RECURSIVE NonBlankCount(_)
NonBlankCount(ls) ==
    IF ls = <<>> THEN 0
    ELSE (IF NonBlank(Head(ls)) THEN 1 ELSE 0) + NonBlankCount(Tail(ls))

\* The number of non-blank lines of the output file: every line end closes a
\* line, and what follows the last line end is one more line if it is not empty.
RECURSIVE OutputLineCount(_, _)
OutputLineCount(written, open) ==
    IF written = <<>> THEN (IF open THEN 1 ELSE 0)
    ELSE IF Head(written).item = "newline"
         THEN (IF open THEN 1 ELSE 0) + OutputLineCount(Tail(written), FALSE)
         ELSE OutputLineCount(Tail(written), TRUE)

\* C4 (as claimed): when reformat_jsonl_file finishes, the number of lines of
\* the output plus the error count is the number of non-blank input lines.
C4_CountsAddUp ==
    (variant = "file" /\ b_pc = "done") =>
        OutputLineCount(outfile, FALSE) + error_count = NonBlankCount(input_lines)

\* C5: no exception leaves either batch function; every non-blank line the
\* loop has passed was either reformatted or reported, and the function ends
\* only after the last line.
C5_FailuresStayLocal ==
    /\ b_pc # "raised"
    /\ b_pc = "done" => line_num = Len(lines)
    /\ (b_pc \in {"loop", "done"} /\ variant = "file") =>
           reformatted_count + error_count = NonBlankCount(SubSeq(lines, 1, line_num))
    /\ (b_pc \in {"loop", "done"} /\ variant = "lines") =>
           Len(reformatted_lines) = NonBlankCount(SubSeq(lines, 1, line_num))

\* A line that is not JSON, a line that fails in reformatting, then a good
\* line: both failures are reported and the good line is reformatted.
C5_Witness ==
    /\ variant = "file" /\ b_pc = "done"
    /\ input_lines = <<Line(TRUE, Garbage, TRUE),
                       Line(FALSE, JsonText(Number, TRUE), FALSE), ExampleLine>>
    /\ error_count = 2 /\ reformatted_count = 1
    /\ outfile[1].line.text.value = reformat_ai_conversation(ExampleConversation)

\* A non-blank line is processed successfully when it is the JSON text of a dict.
Processes(line) == line.text.kind = "json" /\ line.text.value.type = "object"

\* One output line per non-blank input line, in order: the reformatted JSON of
\* a line that processes, and a line that fails either as it is or trimmed.
RECURSIVE ExpectedLines(_, _)
ExpectedLines(ls, trimmed) ==
    IF ls = <<>> THEN <<>>
    ELSE LET line == Head(ls)
             out == IF ~NonBlank(line) THEN <<>>
                    ELSE IF Processes(line)
                         THEN <<Line(FALSE,
                                     JsonText(reformat_ai_conversation(line.text.value),
                                              FALSE),
                                     FALSE)>>
                    ELSE IF trimmed THEN <<Line(FALSE, line.text, FALSE)>>
                    ELSE <<line>>
         IN  out \o ExpectedLines(Tail(ls), trimmed)

LastOutput ==
    IF variant = "file" THEN outfile[Len(outfile) - 1].line.text.value
    ELSE reformatted_lines[Len(reformatted_lines)].text.value

ExampleJustProcessed ==
    b_pc \in {"loop", "done"} /\ line_num >= 1 /\ lines[line_num] = ExampleLine

EXPECTED_ASSISTANT ==
    <<"A", "n", "s", "w", "e", "r", " ", "w", "i", "t", "h", " ">>
    \o BACKTICK \o <<"D", "o", "c", " ", "1">> \o BACKTICK
    \o <<" ", "[", "1", "]", ".">>

\* C8 (as claimed): for the example record the user content becomes
\* 'Sources:\n[1] Doc 1\n[2] Doc 2\n\nQuestion?' and the assistant content
\* 'Answer with `Doc 1` [1].'.
C8_ExampleOutput ==
    ExampleJustProcessed =>
        /\ LastOutput.messages[2].content =
               SOURCES_HEADER \o <<"\n", "[", "1", "]", " ", "D", "o", "c", " ", "1">>
               \o <<"\n", "[", "2", "]", " ", "D", "o", "c", " ", "2">>
               \o <<"\n", "\n", "Q", "u", "e", "s", "t", "i", "o", "n", "?">>
        /\ LastOutput.messages[3].content = EXPECTED_ASSISTANT

\* C8 (amended): the user content becomes
\* 'Sources:\n  - [1] Doc 1\n  - [2] Doc 2\n\nQuestion?' (each source line is a
\* bullet), the assistant content 'Answer with `Doc 1` [1].'.
C8_ExampleOutputBulleted ==
    ExampleJustProcessed =>
        /\ LastOutput.messages[2].content =
               SOURCES_HEADER
               \o <<"\n", " ", " ", "-", " ", "[", "1", "]", " ", "D", "o", "c", " ", "1">>
               \o <<"\n", " ", " ", "-", " ", "[", "2", "]", " ", "D", "o", "c", " ", "2">>
               \o <<"\n", "\n", "Q", "u", "e", "s", "t", "i", "o", "n", "?">>
        /\ LastOutput.messages[3].content = EXPECTED_ASSISTANT

C8_Witness ==
    /\ ExampleJustProcessed /\ variant = "file" /\ b_pc = "done"
    /\ reformatted_count = 1
    /\ Len(LastOutput.messages) = 3

---------------------------------------------------------------------------
(* Properties of the run command (SpecRun) *)

\* The place of a step in the workflow.
Place(step) == CHOOSE i \in 1..Len(Steps) : Steps[i] = step

\* C17: the commands are invoked in the order check, gen, finetune, deploy,
\* eval, each at most once and none that is skipped; whenever a command has
\* been invoked, every earlier step that is not skipped has been invoked and
\* has returned.
C17_FixedOrder ==
    /\ \A i, j \in 1..Len(invoked) : i < j => Place(invoked[i]) < Place(invoked[j])
    /\ \A i \in 1..Len(invoked) :
           /\ ~skipped(options, invoked[i])
           /\ \A step \in StepSet :
                  (Place(step) < Place(invoked[i]) /\ ~skipped(options, step)) =>
                      /\ \E h \in 1..(i - 1) : invoked[h] = step
                      /\ step \in succeeded
    /\ r_pc = "returned" =>
           \A step \in StepSet : ~skipped(options, step) => step \in succeeded

\* gen is skipped: check, finetune, deploy and eval ran, in this order.
C17_Witness ==
    /\ r_pc = "returned"
    /\ options.skip_gen /\ ~options.skip_check
    /\ invoked = <<"check", "finetune", "deploy", "eval">>
    /\ completed_steps = 4 /\ total_steps = 4

\* C18: once a command has failed, it is the last one invoked, run has ended
\* with a ClickException or with SystemExit (exit status 1), and the success
\* summary has not been printed; the summary is printed only when the function
\* returns.
C18_FailureStopsWorkflow ==
    /\ failed_step # "" =>
           /\ invoked[Len(invoked)] = failed_step
           /\ r_pc \in {"ClickException", "SystemExit"}
           /\ ~summary_printed
    /\ summary_printed => (r_pc = "returned" /\ failed_step = "")
    /\ r_pc \in {"ClickException", "SystemExit"} => failed_step # ""

\* check and gen returned, finetune failed: deploy and eval were not invoked.
C18_Witness ==
    /\ failed_step = "finetune"
    /\ invoked = <<"check", "gen", "finetune">>
    /\ r_pc = "ClickException"
    /\ ~summary_printed
    /\ ~options.skip_deploy /\ ~options.skip_eval

\* C19 (as claimed): with --skip-check the infrastructure tests are never run.
C19_SkipCheckSkipsTests ==
    options.skip_check => infra_tests_runs = 0

---------------------------------------------------------------------------
(* Properties of create_finetuning_job (SpecJobs) *)

\* The jobs that a call found on the service and that have its two files and
\* its model (in any version).
MatchingJobs(r) ==
    {k \in 1..Len(r.jobs_before) :
        /\ r.jobs_before[k].training_file = r.training_file
        /\ r.jobs_before[k].validation_file = r.validation_file
        /\ \E version \in Versions : r.jobs_before[k].model = r.model \o version}

\* C20 (as claimed): a call creates a job only when no job of the service
\* matches its files and model; when one matches, the call creates nothing and
\* what it returns is the id of a matching job.
C20_NoSecondJob ==
    \A i \in 1..Len(requests) :
        LET r == requests[i]
        IN  /\ r.created => MatchingJobs(r) = {}
            /\ (MatchingJobs(r) # {} /\ r.job_id # 0) =>
                   \E k \in MatchingJobs(r) : r.jobs_before[k].id = r.job_id

---------------------------------------------------------------------------
(* Properties of upload_finetuning_file (SpecFiles) *)

\* The fine-tune files that a call found on the service and that match its
\* local file: by the upload name, or by basename and size.
MatchingFiles(r) ==
    {k \in 1..Len(r.files_before) :
        /\ r.files_before[k].purpose = "fine-tune"
        /\ \/ r.files_before[k].filename = upload_name(r.local_path, r.file_type)
           \/ /\ r.files_before[k].filename = r.local_path.basename
              /\ r.files_before[k].bytes = getsize(r.local_path.content)}

\* C21 (as claimed): a call uploads only when no fine-tune file of the service
\* matches its local file; when one matches, what the call returns is the id of
\* a matching file; and the service never holds two fine-tune files under one
\* upload name.
C21_NoSecondUpload ==
    /\ \A i \in 1..Len(uploads) :
           LET r == uploads[i]
           IN  /\ r.uploaded => MatchingFiles(r) = {}
               /\ (MatchingFiles(r) # {} /\ r.file_id # 0) =>
                      \E k \in MatchingFiles(r) : r.files_before[k].id = r.file_id
    /\ \A i, j \in 1..Len(files) :
           (i < j /\ files[i].purpose = "fine-tune" /\ files[j].purpose = "fine-tune") =>
               files[i].filename # files[j].filename

---------------------------------------------------------------------------
(* Properties of the finetune command (SpecFt) *)

\* C22: with --dry-run the command calls neither upload_finetuning_file nor
\* create_finetuning_job and the state file stays as it was when the command
\* began; when it returns it has shown the cost summary under the job id
\* "DRY-RUN".
C22_DryRunChangesNothing ==
    ft_options.dry_run =>
        /\ upload_calls = 0 /\ create_calls = 0
        /\ state = state_at_call
        /\ file_ids = <<"", "">> /\ ft_job_id = ""
        /\ ft_pc = "returned" => displayed = "DRY-RUN"

\* A dry run that returned, over a state file an earlier run wrote.
C22_Witness ==
    /\ ft_options.dry_run /\ ft_pc = "returned"
    /\ displayed = "DRY-RUN"
    /\ state["STUDENT_OPENAI_JOB_ID"] = "earlier"
    /\ student_model_name = "gpt-4o"

---------------------------------------------------------------------------
(* Properties of monitor_finetuning_job (SpecMonitor) *)

\* The statuses the claim calls terminal.
TerminalStatuses == {"succeeded", "failed", "cancelled"}

\* What holds of monitor_finetuning_job at every moment: it goes round the
\* loop only on a status that is not terminal, it returns only on the status
\* succeeded, with the fine-tuned model of the job, and it raises exactly when
\* the status is failed or cancelled or when a poll raised.
MonitorSafe ==
    /\ m_pc = "sleep" => response_status \notin TerminalStatuses
    /\ m_pc = "after" => response_status \in TerminalStatuses
    /\ m_pc = "returned" =>
           /\ response_status = "succeeded" /\ ~poll_failed
           /\ monitor_result = service_job.fine_tuned_model /\ monitor_result # ""
    /\ m_pc = "ClickException" =>
           (poll_failed \/ response_status \in {"failed", "cancelled"})
    /\ m_pc = "ClickException" => monitor_result = ""

\* C23: monitor_finetuning_job polls as long as the status is not one of
\* succeeded, failed, cancelled; it returns the fine-tuned model only on
\* succeeded and raises on failed, on cancelled and on a poll that raises; and
\* once the job is in a terminal status the function ends.
C23_MonitorEnds ==
    /\ []MonitorSafe
    /\ (service_job.status \in TerminalStatuses) ~> (m_pc \in {"returned", "ClickException"})

\* A job that was polled while running, then succeeded, and the function
\* returned its model.
C23_Witness ==
    /\ m_pc = "returned" /\ polls >= 2
    /\ response_status = "succeeded"
    /\ monitor_result = "gpt-4o-mini.ft-1"

---------------------------------------------------------------------------
(* Properties of the configure command (SpecConfigure) *)

\* The platform ai.yaml gives the deployment of that name ("" for none).
PlatformOf(name) ==
    LET k == CHOOSE k \in 1..Len(DeploymentPool) : DeploymentPool[k].name = name
    IN  DeploymentPool[k].platform

\* The deployment selected for role, "" when none was.
SelectedFor(role) ==
    IF \E k \in 1..Len(selected) : selected[k][1] = role
    THEN selected[CHOOSE k \in 1..Len(selected) : selected[k][1] = role][2]
    ELSE ""

\* The platforms selected for teacher or student before an offer was made.
PlatformsBefore(offer) ==
    {offer.selected_platforms[k][2] : k \in 1..Len(offer.selected_platforms)}

---------------------------------------------------------------------------
(* Properties of CreateClientLLM (SpecLlm) *)

\* C25 (as claimed): among the chat calls on one endpoint at most one had
\* create_client succeed, and every later call on that endpoint uses the client
\* that call created; a call whose create_client raised raises, uses no client
\* and leaves nothing in the cache.
C25_CreatedOncePerEndpoint ==
    /\ \A i, j \in 1..Len(chat_calls) :
           (i < j /\ chat_calls[i].endpoint = chat_calls[j].endpoint /\ chat_calls[i].created) =>
               /\ ~chat_calls[j].created
               /\ chat_calls[j].client = chat_calls[i].client
    /\ \A k \in 1..Len(create_client_calls) :
           create_client_calls[k].client = 0 =>
               \A item \in clients : item.client # 0
    /\ \A i \in 1..Len(chat_calls) :
           chat_calls[i].client = 0 => chat_calls[i].outcome = "raised"

---------------------------------------------------------------------------
(* Properties of open_chat_tui (SpecChat) *)

\* The other chats' entries are those the file held before the step.
OthersKept ==
    \A id \in DOMAIN file_before \ {chat.id} :
        id \in DOMAIN chats_file /\ chats_file[id] = file_before[id]

ChatPersisted == chat.id \in DOMAIN chats_file /\ chats_file[chat.id] = chat

\* C26 (as claimed): after an accepted user message, a received reply and a
\* /switch, the file's entry for this chat equals the chat in memory and the
\* other chats' entries are unchanged; after a failed model call the chat ends
\* with the user message, and so does its entry in the file.
C26_FileFollowsChat ==
    /\ last_step \in {"user", "reply", "switch"} => ChatPersisted /\ OthersKept
    /\ last_step = "failed" =>
           /\ chat.messages # <<>>
           /\ chat.messages[Len(chat.messages)].role = "user"
           /\ ChatPersisted

====
